---- MODULE Spec2Model ----
(***************************************************************************)
(* DWARFBlockInputFormat: the DWARF .debug_info reader of                  *)
(* src/src/Processors/Formats/Impl/DWARFBlockInputFormat.cpp.              *)
(*                                                                         *)
(* Two parts.  The unit decoder (parseEntries) is a pure function of the   *)
(* unit state and the section bytes and is written as operators over a     *)
(* byte-level .debug_info section.  The scheduler (the worker lambda of    *)
(* initializeIfNeeded, generate, stopThreads, resetParser, the destructor) *)
(* is a state machine whose actions are the critical sections of the one   *)
(* mutex, with the two condition variables as explicit wait sets.          *)
(***************************************************************************)
EXTENDS Integers, Sequences, FiniteSets, TLC

\* ------------------------------------------------------------------ bounds

\* Most units in one .debug_info section.
MaxUnits == 2
\* Most decoder threads (num_threads).
MaxThreads == 2
\* Rows per chunk: the model's stand-in for the 65536 of line 332.
RowCap == 2

\* --------------------------------------------------- DWARF encodings used

DW_TAG_compile_unit == 17
DW_AT_name == 3
DW_AT_decl_line == 59
DW_FORM_string == 8
DW_FORM_data1 == 11
DW_FORM_flag_present == 25
DW_FORM_sec_offset == 23
DW_AT_stmt_list == 16
DW_AT_decl_file == 58
DW_AT_call_file == 88
DW_AT_linkage_name == 110

\* Bytes of a unit header (dwarf_unit->getHeaderSize()), DWARF32 version 4.
HeaderSize == 11

NoError == "ok"

\* ------------------------------------------------------------- the input

\* The abbreviation set of the units (unit.abbrevs): code -> declaration.
\* getAbbreviationDeclaration answers nullptr for a code outside it.
\* Tag 46 is DW_TAG_subprogram, tag 57 DW_TAG_namespace, tag 52
\* DW_TAG_variable, tag 29 DW_TAG_inlined_subroutine; attribute 63 is
\* DW_AT_external.  No declaration carries DW_AT_language or DW_AT_encoding.
Abbrevs ==
    1 :> [tag |-> DW_TAG_compile_unit, children |-> TRUE,
          attrs |-> <<[attr |-> DW_AT_name, form |-> DW_FORM_string]>>]
 @@ 2 :> [tag |-> 46, children |-> FALSE,
          attrs |-> <<[attr |-> DW_AT_decl_line, form |-> DW_FORM_data1]>>]
 @@ 3 :> [tag |-> 57, children |-> TRUE, attrs |-> <<>>]
 @@ 4 :> [tag |-> DW_TAG_compile_unit, children |-> TRUE,
          attrs |-> <<[attr |-> DW_AT_name, form |-> DW_FORM_string],
                      [attr |-> DW_AT_stmt_list, form |-> DW_FORM_sec_offset]>>]
 @@ 5 :> [tag |-> 46, children |-> FALSE,
          attrs |-> <<[attr |-> DW_AT_name, form |-> DW_FORM_string],
                      [attr |-> DW_AT_linkage_name, form |-> DW_FORM_string],
                      [attr |-> DW_AT_name, form |-> DW_FORM_string]>>]
 @@ 6 :> [tag |-> 52, children |-> FALSE,
          attrs |-> <<[attr |-> DW_AT_decl_file, form |-> DW_FORM_data1],
                      [attr |-> DW_AT_decl_line, form |-> DW_FORM_data1],
                      [attr |-> DW_AT_decl_file, form |-> DW_FORM_data1]>>]
 @@ 7 :> [tag |-> 29, children |-> TRUE,
          attrs |-> <<[attr |-> DW_AT_call_file, form |-> DW_FORM_data1],
                      [attr |-> 63, form |-> DW_FORM_flag_present]>>]

\* DIE streams of one unit (the bytes after the unit header).
\* A single childless DIE.
DiesLeaf == <<2, 7>>
\* compile_unit "a" { subprogram } : compile_unit, subprogram, terminator.
DiesTree == <<1, 97, 0, 2, 7, 0>>
\* namespace { namespace { subprogram } } : five rows.
DiesDeep == <<3, 3, 2, 7, 0, 0>>
\* compile_unit "a" { subprogram, subprogram, <undeclared code 9> ...
DiesBadCode == <<1, 97, 0, 2, 7, 2, 7, 9>>

\* The unit header as it lies in the section: unit_length first, the rest
\* (version, abbreviation offset, address size) follows.
HeaderBytes(dies) == <<Len(dies) + HeaderSize - 4, 0, 0, 0, 4, 0, 0, 0, 0, 0, 8>>

UnitBytes(dies) == HeaderBytes(dies) \o dies

RECURSIVE Concat(_)
Concat(seqs) == IF seqs = <<>> THEN <<>> ELSE Head(seqs) \o Concat(Tail(seqs))

\* What llvm's info_section_units() enumerates for a section made of the
\* given DIE streams: per unit getOffset(), getHeaderSize() and
\* getNextUnitOffset().
RECURSIVE UnitHandles(_, _)
UnitHandles(streams, at) ==
    IF streams = <<>> THEN <<>>
    ELSE <<[unit_offset |-> at,
            header_size |-> HeaderSize,
            next_unit_offset |-> at + HeaderSize + Len(Head(streams))]>>
         \o UnitHandles(Tail(streams), at + HeaderSize + Len(Head(streams)))

\* An ELF image as the format sees it: whether .debug_info and .debug_abbrev
\* exist, the bytes of .debug_info, its units, and the index of the first
\* unit whose abbreviation set cannot be found (0: none).
ElfImage(streams, has_info, has_abbrev, bad_unit) ==
    [has_info |-> has_info,
     has_abbrev |-> has_abbrev,
     info |-> Concat([i \in 1..Len(streams) |-> UnitBytes(streams[i])]),
     units |-> UnitHandles(streams, 0),
     bad_unit |-> bad_unit]

\* Lists of units that decode without error: up to MaxUnits units of
\* several chunks each, and the lists with the one-row unit.
StreamLists ==
    {[i \in 1..n |-> DiesDeep] : n \in 0..MaxUnits}
    \cup {<<DiesLeaf>>, <<DiesLeaf, DiesLeaf>>,
          <<DiesLeaf, DiesDeep>>, <<DiesDeep, DiesLeaf>>}

\* Lists with a unit on which the decoder throws: alone, twice, after and
\* before a unit that decodes.
FailingLists ==
    {<<DiesBadCode>>, <<DiesBadCode, DiesBadCode>>,
     <<DiesDeep, DiesBadCode>>, <<DiesBadCode, DiesLeaf>>}

\* ---------------------------------------------------- primitive decoding

\* DataExtractor::getULEB128(&offset, &err): seven bits per byte, low group
\* first; a read at or past the end of the section sets err and leaves the
\* offset where it was.
RECURSIVE ULEB(_, _, _, _, _)
ULEB(info, start, pos, scale, acc) ==
    IF pos >= Len(info)
    THEN [ok |-> FALSE, value |-> 0, next |-> start]
    ELSE LET b == info[pos + 1] IN
         IF b >= 128
         THEN ULEB(info, start, pos + 1, scale * 128, acc + (b % 128) * scale)
         ELSE [ok |-> TRUE, value |-> acc + b * scale, next |-> pos + 1]

getULEB128(info, offset) == ULEB(info, offset, offset, 1, 0)

\* The position of the first NUL at or after pos, or Len(info) if none.
RECURSIVE FindNul(_, _)
FindNul(info, pos) ==
    IF pos >= Len(info) THEN Len(info)
    ELSE IF info[pos + 1] = 0 THEN pos
    ELSE FindNul(info, pos + 1)

\* DWARFFormValue::extractValue for the forms the abbreviations use: the
\* resolved form, the raw unsigned value, the C string, and the offset after
\* the value; ok is FALSE when the bytes run out or the form is unknown.
extractValue(info, form, offset) ==
    IF form = DW_FORM_data1
    THEN IF offset < Len(info)
         THEN [ok |-> TRUE, form |-> form, u |-> info[offset + 1], s |-> <<>>,
               next |-> offset + 1]
         ELSE [ok |-> FALSE, form |-> form, u |-> 0, s |-> <<>>, next |-> offset]
    ELSE IF form = DW_FORM_string
    THEN LET nul == FindNul(info, offset) IN
         IF nul < Len(info)
         THEN [ok |-> TRUE, form |-> form, u |-> 0,
               s |-> SubSeq(info, offset + 1, nul), next |-> nul + 1]
         ELSE [ok |-> FALSE, form |-> form, u |-> 0, s |-> <<>>, next |-> offset]
    ELSE IF form = DW_FORM_flag_present
    THEN [ok |-> TRUE, form |-> form, u |-> 1, s |-> <<>>, next |-> offset]
    ELSE IF form = DW_FORM_sec_offset
    THEN IF offset + 4 =< Len(info)
         THEN [ok |-> TRUE, form |-> form,
               u |-> info[offset + 1] + 256 * info[offset + 2]
                     + 65536 * info[offset + 3] + 16777216 * info[offset + 4],
               s |-> <<>>, next |-> offset + 4]
         ELSE [ok |-> FALSE, form |-> form, u |-> 0, s |-> <<>>, next |-> offset]
    ELSE [ok |-> FALSE, form |-> form, u |-> 0, s |-> <<>>, next |-> offset]

IsIntegerForm(form) ==
    form \in {DW_FORM_data1, DW_FORM_flag_present, DW_FORM_sec_offset}
IsStringForm(form) == form = DW_FORM_string

\* DWARFFormValue::getAsSectionOffset has a value for this form.
IsSectionOffsetForm(form) == form = DW_FORM_sec_offset

\* The .debug_line section of every image, as prologue.parse reads it: a
\* version 4 prologue at offset 0 and a version 5 prologue at offset 1, each
\* naming the files "a" and "b"; at offset 3 a version 4 prologue naming
\* the file "c", on which the parser calls the RecoverableErrorHandler
\* once; no prologue parses at any other offset.
PrologueParse(offset) ==
    IF offset = 0
    THEN [ok |-> TRUE, version |-> 4, FileNames |-> <<<<97>>, <<98>>>>,
          warnings |-> 0]
    ELSE IF offset = 1
    THEN [ok |-> TRUE, version |-> 5, FileNames |-> <<<<97>>, <<98>>>>,
          warnings |-> 0]
    ELSE IF offset = 3
    THEN [ok |-> TRUE, version |-> 4, FileNames |-> <<<<99>>>>, warnings |-> 1]
    ELSE [ok |-> FALSE, version |-> 0, FileNames |-> <<>>, warnings |-> 0]

\* unit.filename_table before the first DW_AT_stmt_list.
NullTable == [null |-> TRUE, col |-> <<>>]

\* ------------------------------------------------------------ Unit State

\* UnitState::UnitState: the cursor starts after the unit header, the stack
\* is empty.
UnitState(handle) ==
    [unit_offset |-> handle.unit_offset,
     end_offset |-> handle.next_unit_offset,
     offset |-> handle.unit_offset + handle.header_size,
     stack |-> <<>>,
     unit_name |-> <<>>,
     filename_table |-> NullTable,
     filename_table_size |-> 0]

\* A variant of parseFilenameTable that starts the dictionary with one empty
\* string whatever the version.
parseFilenameTable_OneDefault(unit, offset) ==
    LET prologue == PrologueParse(offset)
        col == <<<<>>>> \o prologue.FileNames
    IN  IF ~prologue.ok
        THEN [err |-> "Failed to parse .debug_line unit prologue",
              filename_table |-> unit.filename_table,
              filename_table_size |-> unit.filename_table_size,
              warnings |-> prologue.warnings]
        ELSE [err |-> NoError,
              filename_table |-> [null |-> FALSE, col |-> col],
              filename_table_size |-> Len(col) - 1,
              warnings |-> prologue.warnings]

\* parseFilenameTable(unit, offset), lines 645-680: the dictionary starts
\* with the empty string, twice up to version 4, and goes on with the file
\* names of the prologue.
parseFilenameTable(unit, offset) ==
    LET prologue == PrologueParse(offset)
        col == <<<<>>>> \o (IF prologue.version =< 4 THEN <<<<>>>> ELSE <<>>)
                      \o prologue.FileNames
    IN  IF ~prologue.ok
        THEN [err |-> "Failed to parse .debug_line unit prologue",
              filename_table |-> unit.filename_table,
              filename_table_size |-> unit.filename_table_size,
              warnings |-> prologue.warnings]
        ELSE [err |-> NoError,
              filename_table |-> [null |-> FALSE, col |-> col],
              filename_table_size |-> Len(col) - 1,
              warnings |-> prologue.warnings]

\* UnitState::eof
eof(unit) == unit.offset = unit.end_offset

\* ------------------------------------------------------ the unit decoder

\* The columns of the schema that the model carries.
COL_OFFSET == "offset"
COL_SIZE == "size"
COL_TAG == "tag"
COL_UNIT_NAME == "unit_name"
COL_UNIT_OFFSET == "unit_offset"
COL_ANCESTOR_TAGS == "ancestor_tags"
COL_ANCESTOR_OFFSETS == "ancestor_offsets"
COL_NAME == "name"
COL_LINKAGE_NAME == "linkage_name"
COL_DECL_FILE == "decl_file"
COL_DECL_LINE == "decl_line"
COL_ATTR_NAME == "attr_name"
COL_ATTR_FORM == "attr_form"
COL_ATTR_INT == "attr_int"
COL_ATTR_STR == "attr_str"

AllColumns ==
    {COL_OFFSET, COL_SIZE, COL_TAG, COL_UNIT_NAME, COL_UNIT_OFFSET,
     COL_ANCESTOR_TAGS, COL_ANCESTOR_OFFSETS, COL_NAME, COL_LINKAGE_NAME,
     COL_DECL_FILE, COL_DECL_LINE, COL_ATTR_NAME, COL_ATTR_FORM, COL_ATTR_INT,
     COL_ATTR_STR}

\* The columns that take one plain value per row from the cursor or the
\* unit.
PlainColumns == {COL_OFFSET, COL_SIZE, COL_TAG, COL_UNIT_NAME, COL_UNIT_OFFSET}

\* A variant of Need without the propagation rules.
Need_NoForcing(header) == header

\* need[] after the propagation rules of the parallel arrays (lines 309-312).
Need(header) ==
    header
    \cup (IF header \cap {COL_ATTR_FORM, COL_ATTR_INT, COL_ATTR_STR} # {}
          THEN {COL_ATTR_NAME} ELSE {})
    \cup (IF COL_ANCESTOR_OFFSETS \in header THEN {COL_ANCESTOR_TAGS} ELSE {})

\* F(v), with v evaluated once however often F uses it.
Bind(v, F(_)) == CHOOSE r \in {F(x) : x \in {v}} : TRUE

\* col->insertValue(v) under "if (need[...])".
Put(col, wanted, v) == IF wanted THEN Append(col, v) ELSE col

\* A variant of RowSize that forgets where the DIE started.
RowSize_EndOnly(die_offset, offset_after) == offset_after

\* The size column's value: static_cast<UInt32>(unit.offset - die_offset).
\* Offsets of the model stay far below 2^32, where the cast is the identity.
RowSize(die_offset, offset_after) == offset_after - die_offset

\* A variant of InnermostFirst that walks the stack from its bottom.
InnermostFirst_Outermost(stack) == stack

\* The stack from its top (innermost) to its bottom.
RECURSIVE InnermostFirst(_)
InnermostFirst(stack) ==
    IF stack = <<>> THEN <<>>
    ELSE <<stack[Len(stack)]>> \o InnermostFirst(SubSeq(stack, 1, Len(stack) - 1))

Field(recs, f) == [i \in 1..Len(recs) |-> recs[i][f]]

\* A variant of AttributeHead that builds the filename table only when the
\* attribute arrays are collected.
AttributeHead_WhenWanted(a, attr, val) ==
    LET a0 == [a EXCEPT
                 !.offset = val.next,
                 !.col_attr_name = Put(@, a.need_attr_name, attr.attr),
                 !.col_attr_form = Put(@, a.need_attr_form, attr.form)]
    IN  IF /\ attr.attr = DW_AT_stmt_list
           /\ a.filename_table.null
           /\ IsSectionOffsetForm(val.form)
           /\ a.need_attr_name
        THEN Bind(parseFilenameTable(a, val.u), LAMBDA t :
                 [a0 EXCEPT !.err = t.err,
                            !.filename_table = t.filename_table,
                            !.filename_table_size = t.filename_table_size,
                            !.warnings = @ + t.warnings])
        ELSE a0

\* Lines 386-405 for one attribute: the value has been extracted; the
\* attribute's name and form go to their arrays, and the first
\* DW_AT_stmt_list of the unit builds the filename table.
AttributeHead(a, attr, val) ==
    LET a0 == [a EXCEPT
                 !.offset = val.next,
                 !.col_attr_name = Put(@, a.need_attr_name, attr.attr),
                 !.col_attr_form = Put(@, a.need_attr_form, attr.form)]
    IN  IF /\ attr.attr = DW_AT_stmt_list
           /\ a.filename_table.null
           /\ IsSectionOffsetForm(val.form)
        THEN Bind(parseFilenameTable(a, val.u), LAMBDA t :
                 [a0 EXCEPT !.err = t.err,
                            !.filename_table = t.filename_table,
                            !.filename_table_size = t.filename_table_size,
                            !.warnings = @ + t.warnings])
        ELSE a0

\* A variant of TakeFirst that takes every matching attribute of the row.
TakeFirst_Every(matches, need_flag) == matches

\* "matches && std::exchange(need_flag, false)": the first matching
\* attribute of a row whose convenience column is requested.
TakeFirst(matches, need_flag) == matches /\ need_flag

\* The switch on val.getForm() of lines 407-538 for one attribute.
AttributeValue(a, attr, val, tag) ==
    IF IsIntegerForm(val.form)
    THEN LET take_line == TakeFirst(attr.attr = DW_AT_decl_line, a.need_decl_line)
             is_file == /\ attr.attr \in {DW_AT_decl_file, DW_AT_call_file}
                        /\ val.u < a.filename_table_size
             idx == val.u + 1
             take_file == is_file /\ TakeFirst(attr.attr = DW_AT_decl_file,
                                                a.need_decl_file)
         IN  [a EXCEPT
                !.col_attr_int = Put(@, a.need_attr_int, val.u),
                !.need_decl_line = IF take_line THEN FALSE ELSE @,
                !.col_decl_line = IF take_line THEN Append(@, val.u) ELSE @,
                !.need_decl_file = IF take_file THEN FALSE ELSE @,
                !.col_decl_file = IF take_file THEN Append(@, idx) ELSE @,
                !.col_attr_str =
                    Put(@, a.need_attr_str,
                        IF is_file THEN a.filename_table.col[idx + 1] ELSE <<>>)]
    ELSE IF IsStringForm(val.form)
    THEN LET is_name == attr.attr = DW_AT_name
             take_name == TakeFirst(is_name, a.need_name)
             take_linkage == TakeFirst(attr.attr = DW_AT_linkage_name,
                                       a.need_linkage_name)
         IN  [a EXCEPT
                !.need_name = IF take_name THEN FALSE ELSE @,
                !.col_name = IF take_name THEN Append(@, val.s) ELSE @,
                !.unit_name = IF is_name /\ tag = DW_TAG_compile_unit
                              THEN val.s ELSE @,
                !.need_linkage_name = IF take_linkage THEN FALSE ELSE @,
                !.col_linkage_name = IF take_linkage THEN Append(@, val.s) ELSE @,
                !.col_attr_str = Put(@, a.need_attr_str, val.s),
                !.col_attr_int = Put(@, a.need_attr_int, 0)]
    ELSE [a EXCEPT
            !.col_attr_int = Put(@, a.need_attr_int, 0),
            !.col_attr_str = Put(@, a.need_attr_str, <<>>)]

\* The attribute loop of one DIE, from attribute i on.  a carries the
\* cursor, the error, the one-shot flags of the convenience columns, the
\* columns the loop fills and the filename table of the unit.
RECURSIVE Attributes(_, _, _, _, _)
Attributes(info, attrs, tag, i, a) ==
    IF i > Len(attrs) \/ a.err # NoError THEN a
    ELSE
    Bind(extractValue(info, attrs[i].form, a.offset), LAMBDA val :
        IF ~val.ok
        THEN [a EXCEPT !.err = "Failed to parse attribute"]
        ELSE Bind(AttributeHead(a, attrs[i], val), LAMBDA a1 :
                 IF a1.err # NoError THEN a1
                 ELSE Bind(AttributeValue(a1, attrs[i], val, tag),
                           LAMBDA a2 : Attributes(info, attrs, tag, i + 1, a2))))

\* A variant of pop_back that leaves the stack as it is.
pop_back_Nothing(stack) == stack

\* unit.stack.pop_back()
pop_back(stack) == SubSeq(stack, 1, Len(stack) - 1)

\* A variant of StackEmptyCheck that leaves the loop without asking eof.
StackEmptyCheck_NoEof(d) ==
    IF d.unit.stack = <<>> THEN [d EXCEPT !.brk = TRUE] ELSE d

\* Lines 555-560, after the row: an empty stack ends the loop, by break at
\* eof and by an exception before it.
StackEmptyCheck(d) ==
    IF d.unit.stack = <<>>
    THEN IF ~eof(d.unit)
         THEN [d EXCEPT !.err = "Unexpected end of DIE tree"]
         ELSE [d EXCEPT !.brk = TRUE]
    ELSE d

\* One iteration of the while loop of parseEntries (lines 334-560) on the
\* decoder state d: the unit, the column builders, num_rows, err (an
\* exception was thrown) and brk (the loop was left by break).  code is the
\* abbreviation code read at the cursor, a the outcome of the attribute loop.
DecodeDie(info, need, d, code, a) ==
    LET unit == d.unit
        die_offset == unit.offset
        anc == InnermostFirst(unit.stack)
        want_anc == COL_ANCESTOR_TAGS \in need
        d1 == [d EXCEPT
                 !.num_rows = @ + 1,
                 !.col_offset = Put(@, COL_OFFSET \in need, die_offset),
                 !.col_ancestor_tags =
                     IF want_anc THEN @ \o Field(anc, "tag") ELSE @,
                 !.col_ancestor_dwarf_offsets =
                     IF want_anc /\ COL_ANCESTOR_OFFSETS \in need
                     THEN @ \o Field(anc, "offset") ELSE @,
                 !.col_ancestor_array_offsets =
                     IF want_anc
                     THEN Append(@, Len(d.col_ancestor_tags) + Len(anc))
                     ELSE @]
    IN
    IF ~code.ok THEN [d1 EXCEPT !.err = "Failed to parse DIE header"]
    ELSE IF code.value = 0
    THEN \* a terminator: the columns first, then the pop
         LET d2 == [d1 EXCEPT
                      !.col_size = Put(@, COL_SIZE \in need,
                                       RowSize(die_offset, code.next)),
                      !.col_tag = Put(@, COL_TAG \in need, 0),
                      !.col_name = Put(@, COL_NAME \in need, <<>>),
                      !.col_linkage_name =
                          Put(@, COL_LINKAGE_NAME \in need, <<>>),
                      !.col_decl_file = Put(@, COL_DECL_FILE \in need, 0),
                      !.col_decl_line = Put(@, COL_DECL_LINE \in need, 0),
                      !.col_attr_offsets =
                          Put(@, COL_ATTR_NAME \in need, Len(d.col_attr_name))]
         IN  IF unit.stack = <<>>
             THEN [d2 EXCEPT !.unit.offset = code.next, !.err = "Stack underflow"]
             ELSE StackEmptyCheck(
                      [d2 EXCEPT !.unit.offset = code.next,
                                 !.unit.stack = pop_back(unit.stack)])
    ELSE IF code.value \notin DOMAIN Abbrevs
    THEN [d1 EXCEPT !.unit.offset = code.next,
                    !.err = "Abbrev code in DIE header is out of bounds"]
    ELSE
    LET abbrev == Abbrevs[code.value]
        tag == abbrev.tag
    IN
    IF a.err # NoError
    THEN [d1 EXCEPT !.unit.offset = a.offset, !.err = a.err,
                    !.warnings = a.warnings]
    ELSE
    LET stack2 == IF abbrev.children
                  THEN Append(unit.stack, [offset |-> die_offset, tag |-> tag])
                  ELSE unit.stack
        u2 == [unit EXCEPT !.offset = a.offset, !.stack = stack2,
                           !.unit_name = a.unit_name,
                           !.filename_table = a.filename_table,
                           !.filename_table_size = a.filename_table_size]
        d2 == [d1 EXCEPT
                 !.unit = u2,
                 !.warnings = a.warnings,
                 !.col_tag = Put(@, COL_TAG \in need, tag),
                 !.col_size = Put(@, COL_SIZE \in need,
                                  RowSize(die_offset, a.offset)),
                 !.col_attr_name = a.col_attr_name,
                 !.col_attr_form = a.col_attr_form,
                 !.col_attr_int = a.col_attr_int,
                 !.col_attr_str = a.col_attr_str,
                 !.col_attr_offsets =
                     Put(@, COL_ATTR_NAME \in need, Len(a.col_attr_name)),
                 !.col_name = Put(a.col_name, a.need_name, <<>>),
                 !.col_linkage_name =
                     Put(a.col_linkage_name, a.need_linkage_name, <<>>),
                 !.col_decl_file = Put(a.col_decl_file, a.need_decl_file, 0),
                 !.col_decl_line = Put(a.col_decl_line, a.need_decl_line, 0)]
    IN  StackEmptyCheck(d2)

\* The attribute loop of the DIE whose header is code, from the builders of
\* d (lines 379-539); nothing to do for a terminator or an undeclared code.
DieAttributes(info, need, d, code) ==
    LET start == [offset |-> code.next, err |-> NoError,
                  need_name |-> COL_NAME \in need,
                  need_linkage_name |-> COL_LINKAGE_NAME \in need,
                  need_decl_file |-> COL_DECL_FILE \in need,
                  need_decl_line |-> COL_DECL_LINE \in need,
                  need_attr_name |-> COL_ATTR_NAME \in need,
                  need_attr_form |-> COL_ATTR_FORM \in need,
                  need_attr_int |-> COL_ATTR_INT \in need,
                  need_attr_str |-> COL_ATTR_STR \in need,
                  col_name |-> d.col_name,
                  col_linkage_name |-> d.col_linkage_name,
                  col_decl_file |-> d.col_decl_file,
                  col_decl_line |-> d.col_decl_line,
                  col_attr_name |-> d.col_attr_name,
                  col_attr_form |-> d.col_attr_form,
                  col_attr_int |-> d.col_attr_int,
                  col_attr_str |-> d.col_attr_str,
                  unit_name |-> d.unit.unit_name,
                  filename_table |-> d.unit.filename_table,
                  filename_table_size |-> d.unit.filename_table_size,
                  warnings |-> d.warnings]
    IN  IF code.ok /\ code.value \in DOMAIN Abbrevs
        THEN Attributes(info, Abbrevs[code.value].attrs,
                        Abbrevs[code.value].tag, 1, start)
        ELSE start

DecodeEntry(info, need, d) ==
    Bind(getULEB128(info, d.unit.offset), LAMBDA code :
        Bind(DieAttributes(info, need, d, code), LAMBDA a :
            DecodeDie(info, need, d, code, a)))

\* A variant of UnderCap that lets one more row in.
UnderCap_OneMore(num_rows) == num_rows =< RowCap

\* The loop condition of line 332, num_rows < 65536, with the model's cap.
UnderCap(num_rows) == num_rows < RowCap

\* while (num_rows < 65536) { ... }
RECURSIVE DecodeLoop(_, _, _)
DecodeLoop(info, need, d) ==
    IF UnderCap(d.num_rows) /\ d.err = NoError /\ ~d.brk
    THEN Bind(DecodeEntry(info, need, d),
              LAMBDA d2 : DecodeLoop(info, need, d2))
    ELSE d

\* ColumnArray::create(values, offsets): row i is the slice of the flat
\* values between offsets[i-1] and offsets[i].
ArrayColumn(values, offsets) ==
    [i \in 1..Len(offsets) |->
        SubSeq(values, (IF i = 1 THEN 0 ELSE offsets[i - 1]) + 1, offsets[i])]

Replicate(v, n) == [i \in 1..n |-> v]

\* ColumnLowCardinality::create(dictionary, positions) of line 618: each row
\* is a position in the dictionary the column shares.
LowCardinality(dictionary, positions) ==
    [i \in 1..Len(positions) |->
        [dictionary |-> dictionary, position |-> positions[i]]]

\* The chunk assembly of lines 566-642: the requested columns only.
Assemble(header, d) ==
    [num_rows |-> d.num_rows,
     cols |-> [c \in header |->
        CASE c = COL_OFFSET -> d.col_offset
          [] c = COL_SIZE -> d.col_size
          [] c = COL_TAG -> d.col_tag
          [] c = COL_UNIT_NAME -> Replicate(d.unit.unit_name, d.num_rows)
          [] c = COL_UNIT_OFFSET -> Replicate(d.unit.unit_offset, d.num_rows)
          [] c = COL_ANCESTOR_TAGS ->
                ArrayColumn(d.col_ancestor_tags, d.col_ancestor_array_offsets)
          [] c = COL_ANCESTOR_OFFSETS ->
                ArrayColumn(d.col_ancestor_dwarf_offsets,
                            d.col_ancestor_array_offsets)
          [] c = COL_NAME -> d.col_name
          [] c = COL_LINKAGE_NAME -> d.col_linkage_name
          [] c = COL_DECL_FILE ->
                LowCardinality(d.unit.filename_table, d.col_decl_file)
          [] c = COL_DECL_LINE -> d.col_decl_line
          [] c = COL_ATTR_NAME -> ArrayColumn(d.col_attr_name, d.col_attr_offsets)
          [] c = COL_ATTR_FORM -> ArrayColumn(d.col_attr_form, d.col_attr_offsets)
          [] c = COL_ATTR_INT -> ArrayColumn(d.col_attr_int, d.col_attr_offsets)
          [] c = COL_ATTR_STR -> ArrayColumn(d.col_attr_str, d.col_attr_offsets)]]

\* parseEntries(unit): the unit as it is left, the chunk, and the exception
\* thrown ("ok": none, and then the chunk is returned).
parseEntries(info, header, unit) ==
    LET \* the loop under the need flags, computed once from the header
        decoded(need) ==
            DecodeLoop(info, need,
               [unit |-> unit, num_rows |-> 0, err |-> NoError, brk |-> FALSE,
                warnings |-> 0,
                col_offset |-> <<>>, col_size |-> <<>>, col_tag |-> <<>>,
                col_ancestor_tags |-> <<>>, col_ancestor_dwarf_offsets |-> <<>>,
                col_ancestor_array_offsets |-> <<>>,
                col_name |-> <<>>, col_linkage_name |-> <<>>,
                col_decl_file |-> <<>>, col_decl_line |-> <<>>,
                col_attr_name |-> <<>>, col_attr_form |-> <<>>,
                col_attr_int |-> <<>>, col_attr_str |-> <<>>,
                col_attr_offsets |-> <<>>])
    IN
    Bind(Bind(Need(header), decoded),
         LAMBDA d :
            [unit |-> d.unit,
             err |-> d.err,
             warnings |-> d.warnings,
             chunk |-> IF d.err = NoError THEN Assemble(header, d)
                       ELSE [num_rows |-> 0, cols |-> <<>>]])

\* ------------------------------------------------------------ the state

VARIABLES
    input,                \* the ELF image behind the ReadBuffer
    header,               \* the names of the columns of the output port
    seen_debug_line_warnings, \* the handler calls of line 653, all units
    num_threads,          \* the constructor's num_threads_
    elf,                  \* elf.has_value()
    pool,                 \* pool.has_value()
    units_queue,
    delivery_queue,       \* entries [chunk, bytes]
    units_in_progress,
    is_stopped,
    background_exception,
    wpc,                  \* where each pool thread is
    wunit,                \* the UnitState a decoding thread holds
    cpc,                  \* where the consumer thread is
    last_ret,             \* what the consumer's last call returned
    returned,             \* the chunks generate returned since initialization
    first_failure         \* the first exception a worker stored

vars == <<input, header, seen_debug_line_warnings, num_threads, elf, pool,
          units_queue, delivery_queue,
          units_in_progress, is_stopped, background_exception, wpc, wunit,
          cpc, last_ret, returned, first_failure>>

Threads == 1..MaxThreads
Workers == 1..num_threads

NoException == [msg |-> NoError, unit_offset |-> 0, thread |-> 0]
NoUnit == [unit_offset |-> 0, end_offset |-> 0, offset |-> 0, stack |-> <<>>,
           unit_name |-> <<>>, filename_table |-> NullTable,
           filename_table_size |-> 0]

\* getPort().getHeader().getNames()
Header == header

\* The images the scheduler is run on: every list of units that decode, the
\* lists with a failing unit, and the images on which initialization throws.
Images ==
    {ElfImage(st, TRUE, TRUE, 0) : st \in StreamLists \cup FailingLists}
    \cup {ElfImage(<<>>, FALSE, TRUE, 0), ElfImage(<<>>, TRUE, FALSE, 0)}
    \cup {ElfImage(<<DiesLeaf, DiesTree>>, TRUE, TRUE, k) : k \in 1..2}

\* The state after construction.  The scheduler does not look into the
\* columns: it is run with the plain columns on the output port, and the
\* decoder is run under the other headers on its own.
Init ==
    /\ input \in Images
    /\ header = PlainColumns
    /\ seen_debug_line_warnings = 0
    /\ num_threads \in 1..MaxThreads
    /\ elf = FALSE
    /\ pool = FALSE
    /\ units_queue = <<>>
    /\ delivery_queue = <<>>
    /\ units_in_progress = 0
    /\ is_stopped = FALSE
    /\ background_exception = NoException
    /\ wpc = [w \in Threads |-> "none"]
    /\ wunit = [w \in Threads |-> NoUnit]
    /\ cpc = "idle"
    /\ last_ret = [kind |-> "none"]
    /\ returned = <<>>
    /\ first_failure = NoException

\* ------------------------------------------------- condition variables

\* wake_up_threads.notify_all(): every thread in the wait set becomes runnable.
NotifyAllThreads(pc) == [w \in Threads |-> IF pc[w] = "wait" THEN "loop" ELSE pc[w]]

\* A variant of NotifyThread in which the signal wakes nobody.
NotifyThread_Lost(pc, w) == pc

\* wake_up_threads.notify_one(): the thread w of the wait set becomes runnable.
NotifyThread(pc, w) == [pc EXCEPT ![w] = "loop"]

Waiting(pc) == {w \in Threads : pc[w] = "wait"}

\* A variant of NotifyConsumer in which the broadcast wakes nobody.
NotifyConsumer_Lost(c) == c

\* deliver_chunk.notify_one() and notify_all(): the consumer is the only
\* thread that ever waits on deliver_chunk.
NotifyConsumer(c) == IF c = "gen_wait" THEN "gen" ELSE c

\* ------------------------------------------------------ the worker loop

\* A variant of LoopCondition that does not look at is_stopped.
LoopCondition_IgnoresStop(uq, stopped) == uq # <<>>

\* Line 243: while (!units_queue.empty() && !is_stopped)
LoopCondition(uq, stopped) == uq # <<>> /\ ~stopped

\* A variant of BackPressure with the threshold one higher.
BackPressure_OneMore(dq, n) == Len(dq) > n + 1

\* Line 245: if (delivery_queue.size() > num_threads)
BackPressure(dq, n) == Len(dq) > n

\* A variant of PushFront that drops the unit.
PushFront_Lost(uq, unit) == uq

\* Line 269: units_queue.push_front(std::move(unit))
PushFront(uq, unit) == <<unit>> \o uq

\* A variant of EmplaceBack that puts the chunk at the front.
EmplaceFront(dq, chunk, bytes) == <<[chunk |-> chunk, bytes |-> bytes]>> \o dq

\* Line 265: delivery_queue.emplace_back(std::move(chunk), bytes)
EmplaceBack(dq, chunk, bytes) == Append(dq, [chunk |-> chunk, bytes |-> bytes])

\* Line 275: background_exception = std::current_exception()
StoreException(old, new) == new

\* A variant of pop_front that leaves the unit in the queue.
pop_front_Kept(uq) == uq

\* Line 251: units_queue.pop_front()
pop_front(uq) == Tail(uq)

\* Lines 243-254 with the mutex held: leave the loop, wait on
\* wake_up_threads, or pop the front unit and go decoding.
LoopTop(w, pc, uq, dq, in_progress) ==
    IF ~LoopCondition(uq, is_stopped)
    THEN /\ wpc' = [pc EXCEPT ![w] = "done"]
         /\ units_queue' = uq
         /\ units_in_progress' = in_progress
         /\ wunit' = [wunit EXCEPT ![w] = NoUnit]
    ELSE IF BackPressure(dq, num_threads)
    THEN /\ wpc' = [pc EXCEPT ![w] = "wait"]
         /\ units_queue' = uq
         /\ units_in_progress' = in_progress
         /\ wunit' = [wunit EXCEPT ![w] = NoUnit]
    ELSE /\ wpc' = [pc EXCEPT ![w] = "parse"]
         /\ units_queue' = pop_front(uq)
         /\ units_in_progress' = in_progress + 1
         /\ wunit' = [wunit EXCEPT ![w] = Head(uq)]

\* A thread that was just scheduled, or woke from wake_up_threads, takes the
\* mutex and evaluates the loop.
WorkerLoop(w) ==
    /\ wpc[w] = "loop"
    /\ LoopTop(w, wpc, units_queue, delivery_queue, units_in_progress)
    /\ UNCHANGED <<input, header, seen_debug_line_warnings,
                   num_threads, elf, pool, delivery_queue, is_stopped,
                   background_exception, cpc, last_ret, returned,
                   first_failure>>

\* Lines 256-270: the thread decodes one chunk without the mutex, takes the
\* mutex, publishes the chunk, puts the unit back unless it is at eof, and
\* evaluates the loop again.
WorkerPublish(w) ==
    /\ wpc[w] = "parse"
    /\ UNCHANGED <<input, header, num_threads, elf, pool, is_stopped,
                   background_exception, last_ret, returned, first_failure>>
    /\ \E r \in {parseEntries(input.info, Header, wunit[w])} :
           /\ r.err = NoError
           /\ seen_debug_line_warnings' =
                  seen_debug_line_warnings + r.warnings
           /\ \E dq \in {IF r.chunk.num_rows > 0
                          THEN EmplaceBack(delivery_queue, r.chunk,
                                           r.unit.offset - wunit[w].offset)
                          ELSE delivery_queue} :
              \E uq \in {IF ~eof(r.unit) THEN PushFront(units_queue, r.unit)
                          ELSE units_queue} :
                 /\ delivery_queue' = dq
                 /\ cpc' = IF r.chunk.num_rows > 0 THEN NotifyConsumer(cpc)
                           ELSE cpc
                 /\ LoopTop(w, wpc, uq, dq, units_in_progress - 1)

\* Lines 272-277: parseEntries threw; the unit is destroyed with the frame,
\* the exception is stored under the mutex and deliver_chunk is broadcast.
WorkerCatch(w) ==
    /\ wpc[w] = "parse"
    /\ cpc' = NotifyConsumer(cpc)
    /\ wpc' = [wpc EXCEPT ![w] = "done"]
    /\ wunit' = [wunit EXCEPT ![w] = NoUnit]
    /\ UNCHANGED <<input, header, num_threads, elf, pool, units_queue, delivery_queue,
                   units_in_progress, is_stopped, last_ret, returned>>
    /\ \E r \in {parseEntries(input.info, Header, wunit[w])} :
           /\ r.err # NoError
           /\ seen_debug_line_warnings' =
                  seen_debug_line_warnings + r.warnings
           /\ \E ex \in {[msg |-> r.err, unit_offset |-> wunit[w].unit_offset,
                           thread |-> w]} :
                 /\ background_exception' =
                        StoreException(background_exception, ex)
                 /\ first_failure' = IF first_failure = NoException THEN ex
                                     ELSE first_failure

\* wake_up_threads.wait(lock) may return without a notification.
WorkerSpuriousWakeup(w) ==
    /\ wpc[w] = "wait"
    /\ wpc' = [wpc EXCEPT ![w] = "loop"]
    /\ UNCHANGED <<input, header, seen_debug_line_warnings,
                   num_threads, elf, pool, units_queue, delivery_queue,
                   units_in_progress, is_stopped, background_exception, wunit,
                   cpc, last_ret, returned, first_failure>>

\* ------------------------------------------------------------- generate

\* Lines 225-226: one UnitState per unit, in section order.
InitialUnits(handles) == [i \in 1..Len(handles) |-> UnitState(handles[i])]

\* initializeIfNeeded when the ELF is already open (line 192).
InitializeAlready ==
    /\ elf
    /\ cpc' = "gen"
    /\ UNCHANGED <<elf, pool, units_queue, wpc, last_ret>>

\* initializeIfNeeded opens the ELF and throws at lines 202 or 205.
InitializeNoSection ==
    /\ ~elf
    /\ ~is_stopped
    /\ ~input.has_info \/ ~input.has_abbrev
    /\ elf' = TRUE
    /\ cpc' = "idle"
    /\ last_ret' = [kind |-> "init_error"]
    /\ UNCHANGED <<pool, units_queue, wpc>>

\* initializeIfNeeded throws from the UnitState constructor (line 121) of
\* unit bad_unit: the units before it are already in units_queue.
InitializeBadUnit ==
    /\ ~elf
    /\ ~is_stopped
    /\ input.has_info /\ input.has_abbrev
    /\ input.bad_unit # 0
    /\ elf' = TRUE
    /\ units_queue' = units_queue
                      \o InitialUnits(SubSeq(input.units, 1, input.bad_unit - 1))
    /\ cpc' = "idle"
    /\ last_ret' = [kind |-> "init_error"]
    /\ UNCHANGED <<pool, wpc>>

\* initializeIfNeeded runs to its end: the units are enqueued and the pool's
\* num_threads jobs are scheduled (lines 225-232).
InitializeStart ==
    /\ ~elf
    /\ ~is_stopped
    /\ input.has_info /\ input.has_abbrev
    /\ input.bad_unit = 0
    /\ elf' = TRUE
    /\ units_queue' = units_queue \o InitialUnits(input.units)
    /\ pool' = TRUE
    /\ wpc' = [w \in Threads |-> IF w \in Workers THEN "loop" ELSE "none"]
    /\ cpc' = "gen"
    /\ UNCHANGED last_ret

\* generate is called: line 684.
GenerateCall ==
    /\ cpc = "idle"
    /\ \/ InitializeAlready
       \/ InitializeNoSection
       \/ InitializeBadUnit
       \/ InitializeStart
    /\ UNCHANGED <<input, header, seen_debug_line_warnings,
                   num_threads, delivery_queue, units_in_progress,
                   is_stopped, background_exception, wunit, returned,
                   first_failure>>

\* Line 713: if (units_queue.empty() && units_in_progress == 0)
NothingLeft(uq, in_progress) == uq = <<>> /\ in_progress = 0

\* A variant of ScopeExit that wakes the threads and does not set is_stopped.
ScopeExit_NoStop ==
    /\ is_stopped' = is_stopped
    /\ wpc' = NotifyAllThreads(wpc)

\* The SCOPE_EXIT of lines 688-694 on a return with ok = false.
ScopeExit ==
    /\ is_stopped' = TRUE
    /\ wpc' = NotifyAllThreads(wpc)

\* Line 698-699.
GenerateStopped ==
    /\ cpc = "gen"
    /\ is_stopped
    /\ ScopeExit
    /\ cpc' = "idle"
    /\ last_ret' = [kind |-> "eos", line |-> 699]
    /\ UNCHANGED <<input, header, seen_debug_line_warnings,
                   num_threads, elf, pool, units_queue, delivery_queue,
                   units_in_progress, background_exception, wunit, returned,
                   first_failure>>

\* Line 700-701.
GenerateRethrow ==
    /\ cpc = "gen"
    /\ ~is_stopped
    /\ background_exception # NoException
    /\ ScopeExit
    /\ cpc' = "idle"
    /\ last_ret' = [kind |-> "error", ex |-> background_exception]
    /\ UNCHANGED <<input, header, seen_debug_line_warnings,
                   num_threads, elf, pool, units_queue, delivery_queue,
                   units_in_progress, background_exception, wunit, returned,
                   first_failure>>

\* Lines 703-711: the front chunk is returned and one thread waiting on
\* wake_up_threads, if there is any, is notified.
GenerateDeliver ==
    /\ cpc = "gen"
    /\ ~is_stopped
    /\ background_exception = NoException
    /\ delivery_queue # <<>>
    /\ delivery_queue' = Tail(delivery_queue)
    /\ \/ /\ Waiting(wpc) = {}
          /\ wpc' = wpc
       \/ \E w \in Waiting(wpc) : wpc' = NotifyThread(wpc, w)
    /\ cpc' = "idle"
    /\ last_ret' = [kind |-> "chunk"]
    /\ returned' = Append(returned, Head(delivery_queue).chunk)
    /\ UNCHANGED <<input, header, seen_debug_line_warnings,
                   num_threads, elf, pool, units_queue,
                   units_in_progress, is_stopped, background_exception, wunit,
                   first_failure>>

\* Lines 713-714.
GenerateFinished ==
    /\ cpc = "gen"
    /\ ~is_stopped
    /\ background_exception = NoException
    /\ delivery_queue = <<>>
    /\ NothingLeft(units_queue, units_in_progress)
    /\ ScopeExit
    /\ cpc' = "idle"
    /\ last_ret' = [kind |-> "eos", line |-> 714]
    /\ UNCHANGED <<input, header, seen_debug_line_warnings,
                   num_threads, elf, pool, units_queue, delivery_queue,
                   units_in_progress, background_exception, wunit, returned,
                   first_failure>>

\* Line 716: deliver_chunk.wait(lock).
GenerateWait ==
    /\ cpc = "gen"
    /\ ~is_stopped
    /\ background_exception = NoException
    /\ delivery_queue = <<>>
    /\ ~NothingLeft(units_queue, units_in_progress)
    /\ cpc' = "gen_wait"
    /\ UNCHANGED <<input, header, seen_debug_line_warnings,
                   num_threads, elf, pool, units_queue, delivery_queue,
                   units_in_progress, is_stopped, background_exception, wpc,
                   wunit, last_ret, returned, first_failure>>

\* deliver_chunk.wait(lock) may return without a notification.
GenerateSpuriousWakeup ==
    /\ cpc = "gen_wait"
    /\ cpc' = "gen"
    /\ UNCHANGED <<input, header, seen_debug_line_warnings,
                   num_threads, elf, pool, units_queue, delivery_queue,
                   units_in_progress, is_stopped, background_exception, wpc,
                   wunit, last_ret, returned, first_failure>>

\* ------------------------------------------- stopThreads, resetParser

\* A variant of Joined in which stopThreads does not wait for the pool.
Joined_NoWait == TRUE

\* pool->wait() returns: every job of the pool has ended (line 288-289).
Joined == pool => \A w \in Workers : wpc[w] = "done"

\* resetParser is called and runs lines 283-286 of stopThreads.  (The
\* destructor runs stopThreads in the same way and ends the object.)
ResetParserCall ==
    /\ cpc = "idle"
    /\ is_stopped' = TRUE
    /\ cpc' = "reset_notify"
    /\ UNCHANGED <<input, header, seen_debug_line_warnings,
                   num_threads, elf, pool, units_queue, delivery_queue,
                   units_in_progress, background_exception, wpc, wunit,
                   last_ret, returned, first_failure>>

\* Line 287 of stopThreads.
ResetParserNotify ==
    /\ cpc = "reset_notify"
    /\ wpc' = NotifyAllThreads(wpc)
    /\ cpc' = "reset_join"
    /\ UNCHANGED <<input, header, seen_debug_line_warnings,
                   num_threads, elf, pool, units_queue, delivery_queue,
                   units_in_progress, is_stopped, background_exception, wunit,
                   last_ret, returned, first_failure>>

\* resetParser once stopThreads has returned: lines 724-733.
ResetParserClear ==
    /\ cpc = "reset_join"
    /\ Joined
    /\ pool' = FALSE
    /\ wpc' = [w \in Threads |-> "none"]
    /\ background_exception' = NoException
    /\ is_stopped' = FALSE
    /\ units_queue' = <<>>
    /\ delivery_queue' = <<>>
    /\ units_in_progress' = 0
    /\ elf' = FALSE
    /\ cpc' = "idle"
    /\ last_ret' = [kind |-> "reset",
                     midstream |-> units_queue # <<>> \/ delivery_queue # <<>>,
                     after_error |-> background_exception # NoException]
    /\ returned' = <<>>
    /\ first_failure' = NoException
    /\ UNCHANGED <<input, header, seen_debug_line_warnings,
                   num_threads, wunit>>

\* ---------------------------------------------------- the specification

WorkerStep(w) ==
    \/ WorkerLoop(w)
    \/ WorkerPublish(w)
    \/ WorkerCatch(w)

ConsumerStep ==
    \/ GenerateStopped
    \/ GenerateRethrow
    \/ GenerateDeliver
    \/ GenerateFinished
    \/ GenerateWait
    \/ ResetParserNotify
    \/ ResetParserClear

Next ==
    \/ GenerateCall
    \/ ResetParserCall
    \/ ConsumerStep
    \/ GenerateSpuriousWakeup
    \/ \E w \in Threads : WorkerStep(w)
    \/ \E w \in Threads : WorkerSpuriousWakeup(w)

Spec == Init /\ [][Next]_vars

TypeOK ==
    /\ elf \in BOOLEAN /\ pool \in BOOLEAN /\ is_stopped \in BOOLEAN
    /\ units_in_progress \in Nat
    /\ \A w \in Threads : wpc[w] \in {"none", "loop", "wait", "parse", "done"}
    /\ cpc \in {"idle", "gen", "gen_wait", "reset_notify", "reset_join"}

\* ------------------------------------------ what the claims speak about

ChunkUnit(c) == c.cols[COL_UNIT_OFFSET][1]
ChunkFirst(c) == c.cols[COL_OFFSET][1]
ChunkEnd(c) == c.cols[COL_OFFSET][c.num_rows] + c.cols[COL_SIZE][c.num_rows]

\* The rows of a chunk, each a record of its column values.
RowsOf(c) == [i \in 1..c.num_rows |-> [col \in DOMAIN c.cols |-> c.cols[col][i]]]

Range(seq) == {seq[i] : i \in DOMAIN seq}
Count(seq, x) == Cardinality({i \in DOMAIN seq : seq[i] = x})
SameBag(a, b) == \A x \in Range(a) \cup Range(b) : Count(a, x) = Count(b, x)

\* One unit decoded alone, chunk after chunk, until eof or an exception:
\* the reference the scheduler's output is compared with.
RECURSIVE DecodeAlone(_, _, _)
DecodeAlone(info, names, unit) ==
    Bind(parseEntries(info, names, unit), LAMBDA r :
        IF r.err # NoError THEN [chunks |-> <<>>, err |-> r.err]
        ELSE IF eof(r.unit) THEN [chunks |-> <<r.chunk>>, err |-> NoError]
        ELSE Bind(DecodeAlone(info, names, r.unit), LAMBDA rest :
                 [chunks |-> <<r.chunk>> \o rest.chunks, err |-> rest.err]))

\* The units of an image decoded one after the other, in section order.
SequentialChunks(image) ==
    Concat([i \in 1..Len(image.units) |->
               DecodeAlone(image.info, Header, UnitState(image.units[i])).chunks])

DecodesWithoutError(image) ==
    /\ image.has_info /\ image.has_abbrev /\ image.bad_unit = 0
    /\ \A i \in 1..Len(image.units) :
          DecodeAlone(image.info, Header, UnitState(image.units[i])).err = NoError

IsPrefix(a, b) == Len(a) =< Len(b) /\ a = SubSeq(b, 1, Len(a))

ReturnedRows == Concat([i \in 1..Len(returned) |-> RowsOf(returned[i])])

DrainedEOS == last_ret = [kind |-> "eos", line |-> 714]

\* C1: the chunks of one unit are returned by generate in increasing
\* byte-offset order, for every number of threads and every interleaving:
\* of two returned chunks of the same unit, the earlier one ends at or
\* before the offset where the later one starts.
C1_UnitChunksInOffsetOrder ==
    \A i, j \in DOMAIN returned :
        (i < j /\ ChunkUnit(returned[i]) = ChunkUnit(returned[j]))
            => ChunkEnd(returned[i]) =< ChunkFirst(returned[j])

\* Two threads, and generate has returned three chunks of one unit with a
\* chunk of another unit among them.
C1_Witness ==
    /\ num_threads = 2
    /\ \E i, j, k \in DOMAIN returned :
          /\ i < j /\ j < k
          /\ ChunkUnit(returned[i]) = ChunkUnit(returned[k])
          /\ ChunkUnit(returned[j]) # ChunkUnit(returned[i])
    /\ \E i, j, k \in DOMAIN returned :
          /\ i < j /\ j < k
          /\ ChunkUnit(returned[i]) = ChunkUnit(returned[j])
          /\ ChunkUnit(returned[j]) = ChunkUnit(returned[k])

\* C2: on an image that decodes without error, when generate returns
\* end-of-stream from line 714 the rows it has returned are, as a multiset,
\* the rows of the sequential decoding of the units (so the multiset does not
\* depend on num_threads or on the interleaving: no chunk lost, none twice);
\* and with one thread the chunks returned so far are always a prefix of the
\* sequential decoding, so the sequence is the same in every run.
C2_SameRowsForEveryThreadCount ==
    (DrainedEOS \/ num_threads = 1) =>
        (DecodesWithoutError(input) =>
            \E ref \in {SequentialChunks(input)} :
                /\ DrainedEOS =>
                      SameBag(ReturnedRows,
                              Concat([i \in 1..Len(ref) |-> RowsOf(ref[i])]))
                /\ num_threads = 1 => IsPrefix(returned, ref)
                /\ (num_threads = 1 /\ DrainedEOS) => returned = ref)

\* Two threads have delivered, to the end, two units of several chunks
\* each, in an order that is not the sequential one.
C2_Witness ==
    /\ DrainedEOS
    /\ num_threads = 2
    /\ Len(input.units) = 2
    /\ Len(returned) >= 4
    /\ DecodesWithoutError(input)
    /\ returned # SequentialChunks(input)

\* One thread has delivered two units to the end.
C2_WitnessOneThread ==
    /\ DrainedEOS
    /\ num_threads = 1
    /\ Len(input.units) = 2
    /\ Len(returned) >= 4

\* C3 as claimed: the delivery queue never holds more than N + 1 chunks.
C3_QueueAtMostNPlusOne == Len(delivery_queue) =< num_threads + 1

\* C3, amended: the delivery queue never holds more than 2 * N chunks
\* (which is N + 1 only for N = 1): a thread pops a unit only while the
\* queue holds at most N chunks, and up to N threads may then each add one.
C3_QueueAtMostTwiceN == Len(delivery_queue) =< 2 * num_threads

\* Two threads, four chunks in the delivery queue.
C3_Witness == num_threads = 2 /\ Len(delivery_queue) = 4

\* The unit with this handle has been returned up to its end.
ReturnedToEnd(handle) ==
    \E i \in DOMAIN returned :
        /\ ChunkUnit(returned[i]) = handle.unit_offset
        /\ ChunkEnd(returned[i]) = handle.next_unit_offset

\* C4 as claimed: when generate returns end-of-stream from line 714 (no stop
\* requested, no worker error stored), both queues are empty and no unit is
\* being decoded, and every unit of the input has been decoded to eof and
\* returned; and with zero units generate never blocks and returns neither a
\* chunk nor an error.
C4_NoPrematureEndOfStream ==
    /\ DrainedEOS =>
          /\ delivery_queue = <<>>
          /\ units_queue = <<>>
          /\ units_in_progress = 0
          /\ \A w \in Threads : wpc[w] # "parse"
          /\ \A i \in DOMAIN input.units : ReturnedToEnd(input.units[i])
    /\ (input.units = <<>> /\ input.has_info /\ input.has_abbrev) =>
          /\ cpc # "gen_wait"
          /\ last_ret.kind \in {"none", "eos", "reset"}

\* What holds of C4 on the code: the same, for an end-of-stream returned
\* while the pool exists, that is after an initialization that ran to its end.
C4_AfterSuccessfulInitialization ==
    /\ (DrainedEOS /\ pool) =>
          /\ delivery_queue = <<>>
          /\ units_queue = <<>>
          /\ units_in_progress = 0
          /\ \A w \in Threads : wpc[w] # "parse"
          /\ \A i \in DOMAIN input.units : ReturnedToEnd(input.units[i])
    /\ (input.units = <<>> /\ input.has_info /\ input.has_abbrev) =>
          /\ cpc # "gen_wait"
          /\ last_ret.kind \in {"none", "eos", "reset"}

\* The threads and the consumer thread are scheduled fairly: a thread that
\* can take a step (it is runnable, or has been notified) eventually takes
\* it.  Calls of generate and resetParser are the caller's choice, and a
\* spurious wake-up is never owed.
Fairness ==
    /\ \A w \in Threads : WF_vars(WorkerStep(w))
    /\ WF_vars(ConsumerStep)

FairSpec == Spec /\ Fairness

\* C5: after an initialization that ran to its end (the pool exists), under
\* fair scheduling every generate call returns: with a chunk, with
\* end-of-stream, or by raising the stored worker error.
C5_GenerateReturns ==
    (pool /\ cpc \in {"gen", "gen_wait"})
        ~> (cpc = "idle" /\ last_ret.kind \in {"chunk", "eos", "error"})

\* The consumer is blocked on deliver_chunk after it has taken chunks (each
\* of which signalled wake_up_threads), with two threads and a unit that is
\* still being decoded.
C5_Witness ==
    /\ pool /\ cpc = "gen_wait"
    /\ num_threads = 2
    /\ returned # <<>>
    /\ \E w \in Threads : wpc[w] = "parse"

\* C6: an exception thrown in a thread is stored in background_exception;
\* storing it never leaves the consumer blocked on deliver_chunk; and the
\* first time generate examines the state with the exception stored and
\* is_stopped not set, it raises that exception, whatever the delivery queue
\* holds.
C6_WorkerErrorSurfaces ==
    [][ /\ \A w \in Threads :
              (/\ wpc[w] = "parse" /\ wpc'[w] # "parse"
               /\ parseEntries(input.info, Header, wunit[w]).err # NoError)
                  => background_exception'.msg
                         = parseEntries(input.info, Header, wunit[w]).err
        /\ (background_exception' # background_exception
            /\ background_exception' # NoException) => cpc' # "gen_wait"
        /\ (/\ cpc = "gen" /\ cpc' # "gen"
            /\ background_exception # NoException /\ ~is_stopped)
               => /\ cpc' = "idle"
                  /\ last_ret' = [kind |-> "error", ex |-> background_exception]
                  /\ returned' = returned
      ]_vars

\* generate has raised a worker's exception while chunks were waiting in
\* the delivery queue.
C6_Witness ==
    /\ last_ret.kind = "error"
    /\ last_ret.ex = background_exception
    /\ delivery_queue # <<>>
    /\ cpc = "idle"

\* C7 as claimed: background_exception holds the failure that was stored
\* first; a later failure does not overwrite it.
C7_FirstFailureRetained == background_exception = first_failure

\* C8: once is_stopped is set no thread pops a unit: a runnable thread
\* leaves the loop, a decoding thread publishes at most the chunk it is
\* decoding and leaves; under fair scheduling is_stopped leads to a state
\* in which every thread has ended and no stopThreads is still waiting for
\* the pool (the join has returned).
C8_CooperativeCancellation ==
    /\ [][ is_stopped =>
              /\ Len(units_queue') >= Len(units_queue) \/ units_queue' = <<>>
              /\ \A w \in Threads :
                    /\ wpc'[w] = "parse" =>
                          (wpc[w] = "parse" /\ wunit'[w] = wunit[w])
                    /\ wpc[w] = "loop" => wpc'[w] \in {"loop", "done"}
                    /\ wpc[w] = "parse" => wpc'[w] \in {"parse", "done"}
                    /\ wpc[w] = "wait" => wpc'[w] \in {"wait", "loop"}
         ]_vars
    /\ is_stopped ~> (/\ \A w \in Threads : wpc[w] \in {"done", "none"}
                       /\ cpc \notin {"reset_notify", "reset_join"})

\* stopThreads is waiting for the pool in mid-stream: a unit is still
\* queued, a thread is blocked on back-pressure and another is decoding.
C8_Witness ==
    /\ is_stopped
    /\ cpc = "reset_notify"
    /\ units_queue # <<>>
    /\ \E w \in Threads : wpc[w] = "wait"
    /\ \E w \in Threads : wpc[w] = "parse"

\* C9: resetParser clears the state only when every thread of the pool has
\* ended, and leaves every member as the constructor left it: queues empty,
\* units_in_progress 0, no stored exception, is_stopped false, pool and ELF
\* dropped; so the next generate call initializes again, as the first did.
\* No thread is ever alive while the ELF is closed.
C9_ResetParser ==
    /\ [][ (elf /\ ~elf') =>
              /\ \A w \in Threads : wpc[w] \in {"done", "none"}
              /\ units_queue' = <<>>
              /\ delivery_queue' = <<>>
              /\ units_in_progress' = 0
              /\ background_exception' = NoException
              /\ is_stopped' = FALSE
              /\ pool' = FALSE
              /\ wpc' = [w \in Threads |-> "none"]
              /\ cpc' = "idle"
         ]_vars
    /\ [](\A w \in Threads : wpc[w] \in {"loop", "wait", "parse"} => elf)
    /\ [](last_ret.kind = "reset" /\ cpc = "idle" => ~elf /\ ~pool)

\* resetParser has returned after a call in mid-stream.
C9_Witness ==
    /\ last_ret.kind = "reset" /\ last_ret.midstream
    /\ cpc = "idle" /\ ~elf

\* resetParser has returned after a call with a worker's exception stored.
C9_WitnessAfterError ==
    /\ last_ret.kind = "reset" /\ last_ret.after_error
    /\ cpc = "idle" /\ ~elf

\* ------------------------------------------- the decoder on its own

\* The longest DIE stream, in encoded DIEs, the decoder is run on.
MaxDies == 4

\* One encoded DIE each: a compile unit named "a" (children), a leaf with
\* decl_line 7, the same leaf with its abbreviation code in two ULEB bytes,
\* a DIE with children and no attribute, a terminator, an undeclared
\* abbreviation code, and a compile unit whose name lacks its NUL.
DieTokens == {<<1, 97, 0>>, <<2, 7>>, <<130, 0, 7>>, <<3>>, <<0>>, <<9>>, <<1, 97>>}

\* A section of two units: the unit made of the tokens and the DiesLeaf
\* unit, in either order.
DecodeImage(tokens, leaf_first) ==
    IF leaf_first
    THEN ElfImage(<<DiesLeaf, Concat(tokens)>>, TRUE, TRUE, 0)
    ELSE ElfImage(<<Concat(tokens), DiesLeaf>>, TRUE, TRUE, 0)

\* The handle of the unit under decoding in such an image: the second
\* unit when the first is the DiesLeaf unit, the first otherwise.
DecodedHandle ==
    IF SubSeq(input.info, HeaderSize + 1, input.units[1].next_unit_offset) = DiesLeaf
    THEN input.units[2] ELSE input.units[1]

\* One thread holds the unit, popped from the queue and not yet decoded.
InitDecode ==
    /\ \E n \in 1..MaxDies : \E tokens \in [1..n -> DieTokens] :
       \E leaf_first \in BOOLEAN :
           input = DecodeImage(tokens, leaf_first)
    /\ header = AllColumns
    /\ seen_debug_line_warnings = 0
    /\ num_threads = 1
    /\ elf = TRUE
    /\ pool = TRUE
    /\ units_queue = <<>>
    /\ delivery_queue = <<>>
    /\ units_in_progress = 1
    /\ is_stopped = FALSE
    /\ background_exception = NoException
    /\ wpc = [w \in Threads |-> IF w = 1 THEN "parse" ELSE "none"]
    /\ wunit = [w \in Threads |-> IF w = 1 THEN UnitState(DecodedHandle) ELSE NoUnit]
    /\ cpc = "idle"
    /\ last_ret = [kind |-> "none"]
    /\ returned = <<>>
    /\ first_failure = NoException

\* parseEntries returns a chunk; the thread goes on with the same unit
\* unless it is at eof.
DecodeChunk ==
    /\ wpc[1] = "parse"
    /\ \E r \in {parseEntries(input.info, Header, wunit[1])} :
           /\ r.err = NoError
           /\ seen_debug_line_warnings' =
                  seen_debug_line_warnings + r.warnings
           /\ returned' = Append(returned, r.chunk)
           /\ wunit' = [wunit EXCEPT ![1] = r.unit]
           /\ wpc' = [wpc EXCEPT ![1] = IF eof(r.unit) THEN "done" ELSE "parse"]
    /\ UNCHANGED <<input, header, num_threads, elf, pool, units_queue, delivery_queue,
                   units_in_progress, is_stopped, background_exception, cpc,
                   last_ret, first_failure>>

\* parseEntries throws; the rows it had built are gone with the exception.
DecodeThrow ==
    /\ wpc[1] = "parse"
    /\ \E r \in {parseEntries(input.info, Header, wunit[1])} :
           /\ r.err # NoError
           /\ seen_debug_line_warnings' =
                  seen_debug_line_warnings + r.warnings
           /\ background_exception' =
                  [msg |-> r.err, unit_offset |-> wunit[1].unit_offset, thread |-> 1]
    /\ wpc' = [wpc EXCEPT ![1] = "done"]
    /\ UNCHANGED <<input, header, num_threads, elf, pool, units_queue, delivery_queue,
                   units_in_progress, is_stopped, wunit, cpc, last_ret,
                   returned, first_failure>>

NextDecode == DecodeChunk \/ DecodeThrow

SpecDecode == InitDecode /\ [][NextDecode]_vars

RECURSIVE SumSeq(_)
SumSeq(seq) == IF seq = <<>> THEN 0 ELSE Head(seq) + SumSeq(Tail(seq))

\* The unit has been decoded to completion: the thread has left it at eof,
\* without an exception.
DecodedToCompletion ==
    wpc[1] = "done" /\ background_exception = NoException

\* C10: the rows of a unit, over all its chunks in order, are contiguous:
\* the first row starts at the first DIE offset, each row's size is the next
\* row's offset minus its own, the decoder resumes where the last row ends;
\* and for a unit decoded to completion the last row ends at end_offset and
\* the sizes sum to end_offset minus the first DIE offset.
C10_RowContiguity ==
    \E rows \in {ReturnedRows} :
    \E first \in {DecodedHandle.unit_offset + DecodedHandle.header_size} :
        /\ rows # <<>> => rows[1][COL_OFFSET] = first
        /\ \A i \in 1..(Len(rows) - 1) :
              rows[i][COL_SIZE] = rows[i + 1][COL_OFFSET] - rows[i][COL_OFFSET]
        /\ (rows # <<>> /\ wpc[1] = "parse") =>
              rows[Len(rows)][COL_SIZE]
                  = wunit[1].offset - rows[Len(rows)][COL_OFFSET]
        /\ DecodedToCompletion =>
              /\ rows # <<>>
              /\ rows[Len(rows)][COL_SIZE]
                     = DecodedHandle.next_unit_offset - rows[Len(rows)][COL_OFFSET]
              /\ SumSeq([i \in 1..Len(rows) |-> rows[i][COL_SIZE]])
                     = DecodedHandle.next_unit_offset - first

\* A unit decoded to completion in more than one chunk, with a DIE whose
\* header takes two bytes and a terminator among its rows.
C10_Witness ==
    /\ DecodedToCompletion
    /\ Len(returned) >= 2
    /\ \E i \in DOMAIN ReturnedRows : ReturnedRows[i][COL_SIZE] = 3
    /\ \E i \in DOMAIN ReturnedRows : ReturnedRows[i][COL_TAG] = 0

\* ---------------------------------------------------- the ancestry of rows

Reverse(seq) == [k \in 1..Len(seq) |-> seq[Len(seq) + 1 - k]]

\* Whether the DIE at the offset was declared with children, read from the
\* section and the abbreviation set.
HasChildren(info, offset) ==
    \E code \in {getULEB128(info, offset)} :
        /\ code.ok
        /\ code.value \in DOMAIN Abbrevs
        /\ Abbrevs[code.value].children

\* The DIEs whose child list is open before row i, as row numbers,
\* outermost first: every earlier row declared with children whose list no
\* earlier terminator row (tag 0) has closed.
RECURSIVE OpenList(_, _, _)
OpenList(info, rows, i) ==
    IF i = 1 THEN <<>>
    ELSE Bind(OpenList(info, rows, i - 1), LAMBDA prev :
            IF rows[i - 1][COL_TAG] = 0
            THEN SubSeq(prev, 1, Len(prev) - 1)
            ELSE IF HasChildren(info, rows[i - 1][COL_OFFSET])
            THEN Append(prev, i - 1)
            ELSE prev)

\* C11: ancestry is a valid tree path.  For every row returned for the unit,
\* over all its chunks, ancestor_offsets and ancestor_tags list, innermost
\* first, exactly the earlier rows of the unit that were declared with
\* children and whose child list no earlier terminator has closed, each with
\* its own offset and its own tag.
C11_AncestryIsTreePath ==
    \E rows \in {ReturnedRows} :
        \A i \in DOMAIN rows :
            \E open \in {Reverse(OpenList(input.info, rows, i))} :
                /\ Len(rows[i][COL_ANCESTOR_OFFSETS]) = Len(open)
                /\ Len(rows[i][COL_ANCESTOR_TAGS]) = Len(open)
                /\ \A k \in DOMAIN open :
                      /\ open[k] < i
                      /\ rows[open[k]][COL_TAG] # 0
                      /\ HasChildren(input.info, rows[open[k]][COL_OFFSET])
                      /\ rows[i][COL_ANCESTOR_OFFSETS][k]
                             = rows[open[k]][COL_OFFSET]
                      /\ rows[i][COL_ANCESTOR_TAGS][k] = rows[open[k]][COL_TAG]

\* Rows of more than one chunk, one with two ancestors of different tags, a
\* later one with fewer ancestors, after a terminator closed a list.
C11_Witness ==
    /\ Len(returned) >= 2
    /\ \E i, j \in DOMAIN ReturnedRows :
          /\ i < j
          /\ Len(ReturnedRows[i][COL_ANCESTOR_TAGS]) = 2
          /\ ReturnedRows[i][COL_ANCESTOR_TAGS][1]
                 # ReturnedRows[i][COL_ANCESTOR_TAGS][2]
          /\ ReturnedRows[i][COL_TAG] = 0
          /\ Len(ReturnedRows[j][COL_ANCESTOR_TAGS]) = 1

\* The DIE stream of the unit under decoding.
DecodedDies ==
    SubSeq(input.info, DecodedHandle.unit_offset + DecodedHandle.header_size + 1,
           DecodedHandle.next_unit_offset)

\* C12: the unit made of a compile_unit with children, one childless
\* subprogram and one terminator decodes to exactly three rows: row 0 with
\* tag compile_unit, row 1 with tag subprogram and ancestor_tags
\* [compile_unit], row 2 (the terminator) with the empty tag and an empty
\* ancestor_tags list.
C12_TerminatorRowHasNoAncestors ==
    (DecodedDies = DiesTree /\ DecodedToCompletion) =>
        \E rows \in {ReturnedRows} :
            /\ Len(rows) = 3
            /\ rows[1][COL_TAG] = DW_TAG_compile_unit
            /\ rows[2][COL_TAG] = 46
            /\ rows[2][COL_ANCESTOR_TAGS] = <<DW_TAG_compile_unit>>
            /\ rows[3][COL_TAG] = 0
            /\ rows[3][COL_ANCESTOR_TAGS] = <<>>

\* What the decoder does on that unit: the three rows and their tags are
\* as above, and the terminator row lists the compile_unit it closes.
C12_TerminatorRowListsParent ==
    (DecodedDies = DiesTree /\ DecodedToCompletion) =>
        \E rows \in {ReturnedRows} :
            /\ Len(rows) = 3
            /\ rows[1][COL_TAG] = DW_TAG_compile_unit
            /\ rows[1][COL_ANCESTOR_TAGS] = <<>>
            /\ rows[2][COL_TAG] = 46
            /\ rows[2][COL_ANCESTOR_TAGS] = <<DW_TAG_compile_unit>>
            /\ rows[3][COL_TAG] = 0
            /\ rows[3][COL_ANCESTOR_TAGS] = <<DW_TAG_compile_unit>>
            /\ rows[3][COL_ANCESTOR_OFFSETS] = <<rows[1][COL_OFFSET]>>

C12_Reached == DecodedDies = DiesTree /\ DecodedToCompletion

\* ------------------------------- the decoder under every requested header

\* The longest DIE stream, in encoded DIEs, of the units decoded under a
\* choice of requested columns.
MaxAttrDies == 3

\* One encoded DIE each: a compile unit "a" whose DW_AT_stmt_list points to
\* the version 4 prologue, to the version 5 prologue; a
\* subprogram with DW_AT_name "b", DW_AT_linkage_name "l" and a second
\* DW_AT_name "c"; a variable with DW_AT_decl_file 0, DW_AT_decl_line 7 and
\* a second DW_AT_decl_file 1; a variable whose first DW_AT_decl_file (9) is
\* outside every table; an inlined subroutine (children) with
\* DW_AT_call_file 1 and DW_AT_external; a terminator.
AttrTokens ==
    {<<4, 97, 0, 0, 0, 0, 0>>, <<4, 97, 0, 1, 0, 0, 0>>,
     <<5, 98, 0, 108, 0, 99, 0>>, <<6, 0, 7, 1>>, <<6, 9, 7, 0>>, <<7, 1>>, <<0>>}

\* The encoded DIEs a unit starts with: those declared with children, as
\* the unit DIE of a compiled unit is, a compile unit whose
\* DW_AT_stmt_list points to no prologue, and one whose DW_AT_stmt_list
\* points to the prologue that parses with a warning.
UnitDieTokens ==
    {t \in AttrTokens : t[1] \in DOMAIN Abbrevs /\ Abbrevs[t[1]].children}
    \cup {<<4, 97, 0, 2, 0, 0, 0>>, <<4, 97, 0, 3, 0, 0, 0>>}

\* The headers the format is constructed with: the full schema, the plain
\* columns, each one-shot column alone, the two columns that own an offsets
\* vector, parallel arrays without their owner, and a mixed set.
HeaderSets ==
    {AllColumns, PlainColumns,
     {COL_NAME}, {COL_LINKAGE_NAME}, {COL_DECL_FILE}, {COL_DECL_LINE},
     {COL_ATTR_NAME, COL_ANCESTOR_TAGS},
     {COL_ATTR_FORM, COL_ATTR_STR},
     {COL_ATTR_INT, COL_ANCESTOR_OFFSETS},
     {COL_OFFSET, COL_NAME, COL_DECL_FILE, COL_ATTR_NAME}}

\* One thread holds the unit, popped from the queue and not yet decoded; the
\* unit is the second of its section.
InitColumns ==
    /\ \E first \in UnitDieTokens :
       \E n \in 0..(MaxAttrDies - 1) : \E tokens \in [1..n -> AttrTokens] :
           input = DecodeImage(<<first>> \o tokens, TRUE)
    /\ header \in HeaderSets
    /\ seen_debug_line_warnings = 0
    /\ num_threads = 1
    /\ elf = TRUE
    /\ pool = TRUE
    /\ units_queue = <<>>
    /\ delivery_queue = <<>>
    /\ units_in_progress = 1
    /\ is_stopped = FALSE
    /\ background_exception = NoException
    /\ wpc = [w \in Threads |-> IF w = 1 THEN "parse" ELSE "none"]
    /\ wunit = [w \in Threads |-> IF w = 1 THEN UnitState(DecodedHandle) ELSE NoUnit]
    /\ cpc = "idle"
    /\ last_ret = [kind |-> "none"]
    /\ returned = <<>>
    /\ first_failure = NoException

SpecColumns == InitColumns /\ [][NextDecode]_vars

\* The rows of the unit under decoding when every column is requested, up
\* to eof or to the exception: row i of the unit under any header is the
\* DIE at the offset of row i here.
ReferenceRows ==
    Bind(DecodeAlone(input.info, AllColumns, UnitState(DecodedHandle)),
         LAMBDA ref : Concat([k \in 1..Len(ref.chunks) |-> RowsOf(ref.chunks[k])]))

\* The number of attributes the abbreviation of the DIE at the offset
\* declares; 0 for a terminator.
AttributeCount(info, offset) ==
    Bind(getULEB128(info, offset), LAMBDA code :
        IF code.ok /\ code.value \in DOMAIN Abbrevs
        THEN Len(Abbrevs[code.value].attrs) ELSE 0)

\* The rows of a column over the chunks returned so far.
ReturnedColumn(col) == Concat([k \in 1..Len(returned) |-> returned[k].cols[col]])

AttrColumns == {COL_ATTR_NAME, COL_ATTR_FORM, COL_ATTR_INT, COL_ATTR_STR}
AncestorColumns == {COL_ANCESTOR_TAGS, COL_ANCESTOR_OFFSETS}

\* C13: the parallel arrays stay aligned under every requested header.  Each
\* requested attr_* and ancestor_* column has one array per row of its chunk
\* (the shared offsets vector got one entry per row, also when the column
\* that owns it was not requested); in every row the requested attr_* arrays
\* have as many elements as the DIE has attributes, none for a terminator
\* row, and the requested ancestor_* arrays have as many elements as the row
\* has ancestors, so that any two of them are equally long.
C13_ParallelArraysAligned ==
    \E ref \in {ReferenceRows} :
        \A col \in header \cap (AttrColumns \cup AncestorColumns) :
            /\ \A k \in DOMAIN returned :
                  Len(returned[k].cols[col]) = returned[k].num_rows
            /\ \E rows \in {ReturnedColumn(col)} :
                  /\ Len(rows) =< Len(ref)
                  /\ \A i \in DOMAIN rows :
                        Len(rows[i]) =
                            IF col \in AttrColumns
                            THEN AttributeCount(input.info, ref[i][COL_OFFSET])
                            ELSE Len(ref[i][COL_ANCESTOR_TAGS])

\* Neither attr_name nor ancestor_tags is requested, and the rows returned
\* hold a DIE with three attributes under an ancestor and a terminator.
C13_Witness ==
    /\ header = {COL_ATTR_INT, COL_ANCESTOR_OFFSETS}
    /\ DecodedToCompletion
    /\ \E i, j \in DOMAIN ReturnedColumn(COL_ATTR_INT) :
          /\ Len(ReturnedColumn(COL_ATTR_INT)[i]) = 3
          /\ Len(ReturnedColumn(COL_ANCESTOR_OFFSETS)[i]) = 1
          /\ ReferenceRows[j][COL_TAG] = 0
          /\ Len(ReturnedColumn(COL_ATTR_INT)[j]) = 0

\* -------------------------------------------------- chunks by the row cap

StrictlyIncreasing(seq) == \A i \in 1..(Len(seq) - 1) : seq[i] < seq[i + 1]

\* The chunks returned and the chunks queued, in the order of delivery.
ChunksDelivered ==
    returned \o [i \in 1..Len(delivery_queue) |-> delivery_queue[i].chunk]

\* Every chunk delivered has between 1 and RowCap rows at strictly
\* increasing offsets, and of two chunks of one unit the later one starts
\* after the last row of the earlier one.
ChunksWithinCap ==
    \E cs \in {ChunksDelivered} :
        /\ \A i \in DOMAIN cs :
              /\ cs[i].num_rows >= 1
              /\ cs[i].num_rows =< RowCap
              /\ Len(cs[i].cols[COL_OFFSET]) = cs[i].num_rows
              /\ StrictlyIncreasing(cs[i].cols[COL_OFFSET])
        /\ \A i, j \in DOMAIN cs :
              (i < j /\ ChunkUnit(cs[i]) = ChunkUnit(cs[j])) =>
                  cs[i].cols[COL_OFFSET][cs[i].num_rows] < ChunkFirst(cs[j])

\* Thread w publishes in this step the chunk r it decoded from its unit.
Publishes(w, r) ==
    /\ wpc[w] = "parse"
    /\ r.err = NoError
    /\ Len(delivery_queue') = Len(delivery_queue) + 1
    /\ delivery_queue'[Len(delivery_queue')].chunk = r.chunk

\* The unit is back in the scheduler after the step of thread w: in the
\* queue, or popped again by w at once.
BackInScheduler(w, unit) ==
    \/ \E i \in DOMAIN units_queue' : units_queue'[i] = unit
    \/ wpc'[w] = "parse" /\ wunit'[w] = unit

\* C14: chunking by the row cap.  After every step each chunk delivered has
\* at least 1 and at most RowCap rows (the cap, 65536 in the code), its row
\* offsets strictly increase, and a later chunk of a unit starts after the
\* rows of every earlier chunk of that unit; and when a thread publishes a
\* chunk, the chunk starts where the unit stood, ends before where the unit
\* stands now, and the unit is put back exactly when it is not at eof.
C14_ChunkingByRowCap ==
    [][/\ ChunksWithinCap'
       /\ \A w \in Threads :
             wpc[w] = "parse" =>
                 \E r \in {parseEntries(input.info, Header, wunit[w])} :
                     Publishes(w, r) =>
                         /\ ChunkFirst(r.chunk) = wunit[w].offset
                         /\ r.chunk.cols[COL_OFFSET][r.chunk.num_rows]
                                < r.unit.offset
                         /\ BackInScheduler(w, r.unit) <=> ~eof(r.unit)]_vars

\* A unit of more rows than the cap has been returned to its end: a chunk
\* of RowCap rows, a later chunk of the same unit, and its last chunk.
C14_Witness ==
    \E i, j \in DOMAIN returned :
        /\ i < j
        /\ ChunkUnit(returned[i]) = ChunkUnit(returned[j])
        /\ returned[i].num_rows = RowCap
        /\ \E k \in DOMAIN input.units :
              /\ input.units[k].unit_offset = ChunkUnit(returned[j])
              /\ ChunkEnd(returned[j]) = input.units[k].next_unit_offset

\* ------------------------------------------- the end of the DIE tree

\* C15: premature end of the DIE tree is an error.  A unit whose bytes are
\* exhausted while its ancestor stack is not empty fails with an exception:
\* the thread never leaves a unit as finished, at eof and without an
\* exception, with entries on its stack.
C15_PrematureEndIsAnError ==
    (wpc[1] = "done" /\ wunit[1].stack # <<>>) =>
        background_exception # NoException

\* What the decoder does: a unit is left as finished with entries on its
\* stack only when its last chunk stopped at the row cap.
C15_DroppedOnlyAtRowCap ==
    (wpc[1] = "done" /\ wunit[1].stack # <<>>
        /\ background_exception = NoException) =>
            /\ eof(wunit[1])
            /\ returned[Len(returned)].num_rows = RowCap

\* C16: the loop ends on an empty stack.  No row follows, in its chunk or
\* in a later one, a row that left the stack empty; a call of parseEntries
\* that leaves the stack empty returns its chunk only at eof and throws
\* "Unexpected end of DIE tree" only with the stack empty before eof, and a
\* call that returns fewer rows than the cap has left the stack empty.  A
\* unit of a single childless DIE is decoded to one non-terminator row,
\* after which the stack is empty and eof holds.
C16_LoopEndsOnEmptyStack ==
    /\ \E rows \in {ReturnedRows} :
          \A i \in 2..Len(rows) : rows[i][COL_ANCESTOR_TAGS] # <<>>
    /\ (wpc[1] = "parse" /\ returned # <<>>) => wunit[1].stack # <<>>
    /\ wpc[1] = "parse" =>
          \E r \in {parseEntries(input.info, Header, wunit[1])} :
              /\ (r.err = NoError /\ r.unit.stack = <<>>) => eof(r.unit)
              /\ r.err = "Unexpected end of DIE tree" =>
                     r.unit.stack = <<>> /\ ~eof(r.unit)
              /\ (r.err = NoError /\ r.chunk.num_rows < RowCap) =>
                     r.unit.stack = <<>>
    /\ (DecodedDies \in {<<2, 7>>, <<130, 0, 7>>} /\ wpc[1] = "done") =>
          /\ background_exception = NoException
          /\ Len(ReturnedRows) = 1
          /\ ReturnedRows[1][COL_TAG] = 46
          /\ wunit[1].stack = <<>>
          /\ eof(wunit[1])

\* After a first chunk, a terminator emptied the stack before the end of
\* the unit, and the call threw.
C16_Witness ==
    /\ returned # <<>>
    /\ wpc[1] = "done"
    /\ background_exception.msg = "Unexpected end of DIE tree"

\* ------------------------------------------------------ terminator rows

\* The row is what a terminator leaves in the columns: tag 0, empty name
\* and linkage_name, position 0 in decl_file, decl_line 0, no attribute.
TerminatorRow(row) ==
    /\ row[COL_TAG] = 0
    /\ row[COL_NAME] = <<>>
    /\ row[COL_LINKAGE_NAME] = <<>>
    /\ row[COL_DECL_FILE].position = 0
    /\ row[COL_DECL_LINE] = 0
    /\ \A col \in AttrColumns : row[col] = <<>>

\* C17: a terminator read with the stack empty throws "Stack underflow",
\* and no returned row is such a terminator; every other terminator gives a
\* row with tag 0, empty name and linkage_name, decl_file 0, decl_line 0 and
\* empty attribute arrays, and pops exactly one stack entry: what follows
\* it, the next row or the stack the unit is left with, has the ancestors
\* of the terminator row without the innermost one.
C17_TerminatorPopsOne ==
    /\ wpc[1] = "parse" =>
          \E r \in {parseEntries(input.info, Header, wunit[1])} :
          \E code \in {getULEB128(input.info, wunit[1].offset)} :
              /\ (wunit[1].stack = <<>> /\ code.ok /\ code.value = 0) =>
                     r.err = "Stack underflow"
              /\ r.err = "Stack underflow" =>
                     wunit[1].stack = <<>> /\ code.ok /\ code.value = 0
    /\ background_exception.msg = "Stack underflow" => returned = <<>>
    /\ \E rows \in {ReturnedRows} :
          \A i \in DOMAIN rows :
              rows[i][COL_TAG] = 0 =>
                  /\ rows[i][COL_ANCESTOR_OFFSETS] # <<>>
                  /\ TerminatorRow(rows[i])
                  /\ i < Len(rows) =>
                        /\ rows[i + 1][COL_ANCESTOR_OFFSETS]
                               = Tail(rows[i][COL_ANCESTOR_OFFSETS])
                        /\ rows[i + 1][COL_ANCESTOR_TAGS]
                               = Tail(rows[i][COL_ANCESTOR_TAGS])
                  /\ i = Len(rows) =>
                        /\ Field(Reverse(wunit[1].stack), "offset")
                               = Tail(rows[i][COL_ANCESTOR_OFFSETS])
                        /\ Field(Reverse(wunit[1].stack), "tag")
                               = Tail(rows[i][COL_ANCESTOR_TAGS])

\* A returned terminator row under two ancestors, followed by a row under
\* one.
C17_Witness ==
    \E i \in DOMAIN ReturnedRows :
        /\ ReturnedRows[i][COL_TAG] = 0
        /\ Len(ReturnedRows[i][COL_ANCESTOR_TAGS]) = 2
        /\ i < Len(ReturnedRows)
        /\ ReturnedRows[i + 1][COL_TAG] # 0
        /\ Len(ReturnedRows[i + 1][COL_ANCESTOR_TAGS]) = 1

\* -------------------------------------------- projection of the schema

\* The chunk with the columns of names only.
Project(chunk, names) ==
    [num_rows |-> chunk.num_rows, cols |-> [c \in names |-> chunk.cols[c]]]

FirstName(row) ==
    LET ks == {k \in DOMAIN row[COL_ATTR_NAME] :
                  /\ row[COL_ATTR_NAME][k] = DW_AT_name
                  /\ row[COL_ATTR_FORM][k] = DW_FORM_string}
    IN  IF ks = {} THEN <<>>
        ELSE row[COL_ATTR_STR][CHOOSE k \in ks : \A j \in ks : k =< j]

\* C19: first occurrence wins for the name column.  Whenever name is
\* requested, each chunk holds exactly one name per row, and the name of
\* every non-terminator row is the string of the first DW_AT_name attribute
\* of its DIE, whatever later DW_AT_name attributes say, and is empty when
\* the DIE has none.
C19_FirstNameWins ==
    COL_NAME \in header =>
        /\ \A k \in DOMAIN returned :
              Len(returned[k].cols[COL_NAME]) = returned[k].num_rows
        /\ \E ref \in {ReferenceRows} :
           \E names \in {ReturnedColumn(COL_NAME)} :
              \A i \in DOMAIN names :
                  ref[i][COL_TAG] # 0 => names[i] = FirstName(ref[i])

\* A returned row named "b" whose DIE carries a later DW_AT_name "c", next
\* to a row of a DIE without a DW_AT_name.
C19_Witness ==
    /\ COL_NAME \in header
    /\ \E i, j \in DOMAIN ReturnedColumn(COL_NAME) :
          /\ ReturnedColumn(COL_NAME)[i] = <<98>>
          /\ ReferenceRows[i][COL_ATTR_NAME][3] = DW_AT_name
          /\ ReferenceRows[i][COL_ATTR_STR][3] = <<99>>
          /\ ReferenceRows[j][COL_TAG] # 0
          /\ DW_AT_name \notin Range(ReferenceRows[j][COL_ATTR_NAME])
          /\ ReturnedColumn(COL_NAME)[j] = <<>>

\* ------------------------------------------------- the decl_file column

\* The positions of an attribute among the attributes of a row decoded with
\* every column requested.
AttributePositions(row, attr) ==
    {k \in DOMAIN row[COL_ATTR_NAME] : row[COL_ATTR_NAME][k] = attr}

First(ks) == CHOOSE k \in ks : \A j \in ks : k =< j

\* The line-table prologue in force at row i: the one the first
\* DW_AT_stmt_list of the rows up to i points to.  ok is FALSE if there is
\* none.
PrologueAt(ref, i) ==
    LET js == {j \in 1..i : AttributePositions(ref[j], DW_AT_stmt_list) # {}}
    IN  IF js = {} THEN [ok |-> FALSE, version |-> 0, FileNames |-> <<>>]
        ELSE PrologueParse(
                 ref[First(js)][COL_ATTR_INT]
                    [First(AttributePositions(ref[First(js)], DW_AT_stmt_list))])

\* Row i is a DIE whose first DW_AT_decl_file is 0, in a unit with a
\* filename table.
DeclFileZero(ref, i) ==
    /\ AttributePositions(ref[i], DW_AT_decl_file) # {}
    /\ ref[i][COL_ATTR_INT][First(AttributePositions(ref[i], DW_AT_decl_file))] = 0
    /\ PrologueAt(ref, i).ok

\* The string a decl_file value denotes in its dictionary.
FileNameOf(value) == value.dictionary.col[value.position + 1]

\* C20 as stated: for a DIE with DW_AT_decl_file = 0 the decl_file index is
\* 1, an empty string, under a prologue of version <= 4, and is 2, the
\* first real filename, under a prologue of version >= 5.
C20_IndexTwoInVersionFive ==
    COL_DECL_FILE \in header =>
        \E ref \in {ReferenceRows} :
        \E files \in {ReturnedColumn(COL_DECL_FILE)} :
            \A i \in DOMAIN files :
                DeclFileZero(ref, i) =>
                    IF PrologueAt(ref, i).version =< 4
                    THEN files[i].position = 1 /\ FileNameOf(files[i]) = <<>>
                    ELSE /\ files[i].position = 2
                         /\ FileNameOf(files[i]) = PrologueAt(ref, i).FileNames[1]

\* C20, amended: for a DIE with DW_AT_decl_file = 0 the decl_file index is 1
\* under every version; index 1 is an empty string in the dictionary of a
\* prologue of version <= 4 and the first real filename in the dictionary
\* of a prologue of version >= 5.
C20_IndexOneInBothVersions ==
    COL_DECL_FILE \in header =>
        \E ref \in {ReferenceRows} :
        \E files \in {ReturnedColumn(COL_DECL_FILE)} :
            \A i \in DOMAIN files :
                DeclFileZero(ref, i) =>
                    /\ files[i].position = 1
                    /\ FileNameOf(files[i]) =
                           IF PrologueAt(ref, i).version =< 4 THEN <<>>
                           ELSE PrologueAt(ref, i).FileNames[1]

\* A returned row of a DIE with DW_AT_decl_file = 0 under a version 5
\* prologue: index 1, the file "a".
C20_Witness ==
    /\ COL_DECL_FILE \in header
    /\ \E i \in DOMAIN ReturnedColumn(COL_DECL_FILE) :
          /\ DeclFileZero(ReferenceRows, i)
          /\ PrologueAt(ReferenceRows, i).version = 5
          /\ ReturnedColumn(COL_DECL_FILE)[i].position = 1
          /\ FileNameOf(ReturnedColumn(COL_DECL_FILE)[i]) = <<97>>

\* The same under a version 4 prologue: index 1, the empty string.
C20_WitnessVersionFour ==
    /\ COL_DECL_FILE \in header
    /\ \E i \in DOMAIN ReturnedColumn(COL_DECL_FILE) :
          /\ DeclFileZero(ReferenceRows, i)
          /\ PrologueAt(ReferenceRows, i).version = 4
          /\ ReturnedColumn(COL_DECL_FILE)[i].position = 1
          /\ FileNameOf(ReturnedColumn(COL_DECL_FILE)[i]) = <<>>

\* ------------------------------------------- units without a line table

\* No DIE of the decoded unit carries DW_AT_stmt_list: the filename table
\* of the unit is never built.
NoStmtList(ref) ==
    \A j \in DOMAIN ref : AttributePositions(ref[j], DW_AT_stmt_list) = {}

\* C21 as stated: for a unit in which no DIE carries DW_AT_stmt_list a
\* requested decl_file column is still produced; every row has index 0 and
\* the value is the empty string, whatever DW_AT_decl_file the DIEs carry.
C21_NoTableGivesEmptyString ==
    COL_DECL_FILE \in header =>
        \E ref \in {ReferenceRows} :
        \E files \in {ReturnedColumn(COL_DECL_FILE)} :
            NoStmtList(ref) =>
                \A i \in DOMAIN files :
                    /\ files[i].position = 0
                    /\ ~files[i].dictionary.null
                    /\ FileNameOf(files[i]) = <<>>

\* What the code does keep in such a unit: every index is 0, and the
\* column is made over the null filename_table of the unit.
C21_IndexZeroOverNullTable ==
    COL_DECL_FILE \in header =>
        \E ref \in {ReferenceRows} :
        \E files \in {ReturnedColumn(COL_DECL_FILE)} :
            NoStmtList(ref) =>
                \A i \in DOMAIN files :
                    files[i].position = 0 /\ files[i].dictionary.null

\* A chunk of a unit without DW_AT_stmt_list whose DIE carries
\* DW_AT_decl_file: the decl_file column is made over the null table.
C21_Reached ==
    /\ COL_DECL_FILE \in header
    /\ NoStmtList(ReferenceRows)
    /\ \E i \in DOMAIN ReturnedColumn(COL_DECL_FILE) :
          /\ AttributePositions(ReferenceRows[i], DW_AT_decl_file) # {}
          /\ ReturnedColumn(COL_DECL_FILE)[i].dictionary.null

\* ------------------------------------------------- ownership of the units

\* The units of the input, each known by the offset of its header.
UnitIds == {input.units[i].unit_offset : i \in DOMAIN input.units}

\* Where the Unit State of unit u is: positions of units_queue, and threads
\* that hold it between the pop of line 250 and the end of lines 260-269.
InQueue(u) == {i \in DOMAIN units_queue : units_queue[i].unit_offset = u}
HeldBy(u) == {w \in Threads : wpc[w] = "parse" /\ wunit[w].unit_offset = u}
Owned(u) == InQueue(u) # {} \/ HeldBy(u) # {}

\* Each Unit State is in at most one place, and every Unit State in the
\* queue or in a thread's hands is one of the input's units.
UnitsOwnedOnce ==
    /\ \A u \in UnitIds : Cardinality(InQueue(u)) + Cardinality(HeldBy(u)) =< 1
    /\ \A i \in DOMAIN units_queue : units_queue[i].unit_offset \in UnitIds
    /\ \A w \in Threads :
          IF wpc[w] = "parse" THEN wunit[w].unit_offset \in UnitIds
          ELSE wunit[w] = NoUnit

\* A unit that is in no place comes back only by an initialization
\* (lines 225-226), which makes the Unit States anew.
DroppedStaysDropped ==
    \A u \in UnitIds : (~Owned(u) /\ Owned(u)') => (~elf /\ elf')

\* A unit leaves the queue and the threads only when the thread that holds
\* it found it at eof or threw, or when resetParser clears the queue.
DroppedWhenDone ==
    \A u \in UnitIds :
        (Owned(u) /\ ~Owned(u)') =>
            \/ cpc = "reset_join" /\ cpc' = "idle"
            \/ \E w \in HeldBy(u) :
                 \E r \in {parseEntries(input.info, Header, wunit[w])} :
                    r.err # NoError \/ eof(r.unit)

\* C22: each Unit State is in exactly one place, in units_queue at most
\* once, held by exactly one worker, or dropped after eof or a decoding
\* error; no unit is decoded by two workers at once and no dropped unit
\* reappears in the queue.
C22_ExclusiveOwnership ==
    [](UnitsOwnedOnce) /\ [][DroppedStaysDropped /\ DroppedWhenDone]_vars

\* Two threads decode two different units at once, the second of them
\* taken from the queue a second time.
C22_Witness ==
    /\ \E u1, u2 \in UnitIds :
          /\ u1 # u2
          /\ HeldBy(u1) # {} /\ HeldBy(u2) # {}
          /\ \E w \in HeldBy(u2) : wunit[w].offset > u2 + HeaderSize
    /\ returned # <<>>

\* One unit is dropped at eof while a thread decodes the other.
C22_WitnessDropped ==
    \E u1, u2 \in UnitIds :
        /\ HeldBy(u1) # {}
        /\ ~Owned(u2)
        /\ \E k \in DOMAIN returned : ChunkUnit(returned[k]) = u2
        /\ background_exception = NoException

\* ------------------------------------------------------ units_in_progress

\* The threads that have popped a unit and are decoding it.
Decoding == {w \in Threads : wpc[w] = "parse"}

\* C23 as stated: units_in_progress equals the number of workers that have
\* popped a unit and are currently decoding it, in every state, including
\* after a worker has failed with an exception.
C23_ExactCount == units_in_progress = Cardinality(Decoding)

\* What the code keeps: the count is exact as long as no worker has thrown,
\* and is never below the number of decoding workers.
C23_ExactUntilFailure ==
    /\ background_exception = NoException
          => units_in_progress = Cardinality(Decoding)
    /\ units_in_progress >= Cardinality(Decoding)

\* A worker has thrown and no thread is decoding: the count still says one.
C23_Reached ==
    /\ background_exception # NoException
    /\ Decoding = {}
    /\ units_in_progress = 1

\* ------------------------------------------------ the returns of generate

\* The step ends a generate call behind the scope guard of lines 688-694:
\* a return or a rethrow out of the loop of lines 696-717.
ReturnsFromLoop == cpc = "gen" /\ cpc' = "idle"

\* The step ends a generate call inside initializeIfNeeded, by an exception
\* of lines 202, 205 or 121.
ThrowsFromInitialization == cpc = "idle" /\ ~elf /\ elf' /\ cpc' = "idle"

\* What a return does to the stop flag and to the threads: a delivered chunk
\* leaves is_stopped as it was, every other return sets it and leaves no
\* thread waiting on wake_up_threads.
ReturnStopsUnlessChunk ==
    IF last_ret'.kind = "chunk"
    THEN is_stopped' = is_stopped
    ELSE is_stopped' /\ Waiting(wpc') = {}

\* C24 as stated: every return from generate that is not the delivery of a
\* chunk sets is_stopped and broadcasts wake_up_threads before the mutex is
\* released; a return that delivers a chunk leaves is_stopped unchanged.
C24_EveryOtherReturnStops ==
    [][(ReturnsFromLoop \/ ThrowsFromInitialization) => ReturnStopsUnlessChunk]_vars

\* What the code keeps: the returns behind the scope guard.
C24_ReturnsBehindTheGuardStop ==
    [][ReturnsFromLoop => ReturnStopsUnlessChunk]_vars

\* generate has thrown out of initializeIfNeeded and is_stopped is not set.
C24_Reached ==
    /\ last_ret = [kind |-> "init_error"]
    /\ cpc = "idle"
    /\ ~is_stopped

\* ------------------------------------------------- the frame of a parse

\* The state a parse of the unit in thread 1's hands must leave alone: the
\* queues, the counters and flags of the scheduler, and the Unit States the
\* other threads hold.
SchedulerStateKept ==
    /\ UNCHANGED <<units_queue, delivery_queue, units_in_progress, is_stopped>>
    /\ \A w \in Threads \ {1} : wunit'[w] = wunit[w]
    /\ returned' # returned => background_exception' = background_exception

\* C25 as stated: parse mutates only the Unit State it was given; decoding
\* a chunk leaves units_queue, delivery_queue, units_in_progress,
\* is_stopped, background_exception, every other Unit State and every other
\* state shared between workers unchanged, the filename-table builder
\* included.
C25_ParseTouchesOnlyItsUnit ==
    [][SchedulerStateKept /\ UNCHANGED seen_debug_line_warnings]_vars

\* What the code keeps: the scheduler's state is left alone, and the one
\* shared thing a parse writes is the warning counter, which it raises by
\* the number of handler calls of the prologue parser.
C25_OnlyTheWarningCounter ==
    [][/\ SchedulerStateKept
       /\ \E r \in {parseEntries(input.info, Header, wunit[1])} :
             seen_debug_line_warnings' = seen_debug_line_warnings + r.warnings
      ]_vars

\* A chunk was decoded and the warning counter of the object went up.
C25_Reached ==
    /\ returned # <<>>
    /\ seen_debug_line_warnings = 1

\* ------------------------------------------------------- filename lookup

\* filename_table_size when row i is decoded: the number of entries after
\* index 0 of the table the prologue in force gives, 0 before any table.
TableSizeAt(ref, i) ==
    IF ~PrologueAt(ref, i).ok THEN 0
    ELSE Len(PrologueAt(ref, i).FileNames)
         + (IF PrologueAt(ref, i).version =< 4 THEN 1 ELSE 0)

\* The positions of the attributes of a row that name a file.
FilePositions(row) ==
    {k \in DOMAIN row[COL_ATTR_NAME] :
        row[COL_ATTR_NAME][k] \in {DW_AT_decl_file, DW_AT_call_file}}

\* The raw value of the first DW_AT_decl_file of a row, and of the first
\* one that is inside the table.
FirstDeclFile(row) ==
    row[COL_ATTR_INT][First(AttributePositions(row, DW_AT_decl_file))]
DeclFilesInRange(row, size) ==
    {k \in AttributePositions(row, DW_AT_decl_file) : row[COL_ATTR_INT][k] < size}

\* attr_str of every attribute that names a file: the entry raw + 1 of the
\* unit's table, which exists, when raw < filename_table_size, and the
\* default otherwise.
LookupInBounds(ref) ==
    COL_ATTR_STR \in header =>
        \E strs \in {ReturnedColumn(COL_ATTR_STR)} :
            \A i \in DOMAIN strs : \A k \in FilePositions(ref[i]) :
                \E raw \in {ref[i][COL_ATTR_INT][k]} :
                \E table \in {ref[i][COL_DECL_FILE].dictionary} :
                    IF raw < TableSizeAt(ref, i)
                    THEN /\ ~table.null
                         /\ raw + 2 \in DOMAIN table.col
                         /\ strs[i][k] = table.col[raw + 2]
                    ELSE strs[i][k] = <<>>

\* C26 as stated: for an integer-form DW_AT_decl_file or DW_AT_call_file
\* with raw < filename_table_size, attr_str is filename_table[raw + 1],
\* a valid index of the table under both prologue versions, and for the
\* first DW_AT_decl_file of the DIE the decl_file index is raw + 1; when
\* raw >= filename_table_size attr_str is the default and decl_file stays 0.
C26_FirstDeclFileDecides ==
    \E ref \in {ReferenceRows} :
        /\ LookupInBounds(ref)
        /\ COL_DECL_FILE \in header =>
              \E files \in {ReturnedColumn(COL_DECL_FILE)} :
                  \A i \in DOMAIN files :
                      AttributePositions(ref[i], DW_AT_decl_file) # {} =>
                          files[i].position =
                              IF FirstDeclFile(ref[i]) < TableSizeAt(ref, i)
                              THEN FirstDeclFile(ref[i]) + 1 ELSE 0

\* What the code keeps: the lookups are in bounds, and the decl_file index
\* is raw + 1 of the first DW_AT_decl_file of the DIE that is inside the
\* table, 0 when the DIE has none.
C26_FirstInRangeDecides ==
    \E ref \in {ReferenceRows} :
        /\ LookupInBounds(ref)
        /\ COL_DECL_FILE \in header =>
              \E files \in {ReturnedColumn(COL_DECL_FILE)} :
                  \A i \in DOMAIN files :
                      \E ks \in {DeclFilesInRange(ref[i], TableSizeAt(ref, i))} :
                          files[i].position =
                              IF ks = {} THEN 0
                              ELSE ref[i][COL_ATTR_INT][First(ks)] + 1

\* A returned row whose first DW_AT_decl_file (9) is outside the table and
\* whose second (0) is inside: the decl_file index is 1.
C26_Reached ==
    /\ COL_DECL_FILE \in header
    /\ \E i \in DOMAIN ReturnedColumn(COL_DECL_FILE) :
          /\ AttributePositions(ReferenceRows[i], DW_AT_decl_file) # {}
          /\ FirstDeclFile(ReferenceRows[i]) >= TableSizeAt(ReferenceRows, i)
          /\ ReturnedColumn(COL_DECL_FILE)[i].position = 1

\* A lookup inside the table: a DW_AT_call_file 1 under the version 5
\* prologue is the file "b".
C26_ReachedLookup ==
    /\ COL_ATTR_STR \in header
    /\ \E i \in DOMAIN ReturnedColumn(COL_ATTR_STR) :
          /\ PrologueAt(ReferenceRows, i).version = 5
          /\ \E k \in DOMAIN ReferenceRows[i][COL_ATTR_NAME] :
                /\ ReferenceRows[i][COL_ATTR_NAME][k] = DW_AT_call_file
                /\ ReturnedColumn(COL_ATTR_STR)[i][k] = <<98>>

\* A lookup outside the table: a DW_AT_decl_file 9 gives the default.
C26_ReachedDefault ==
    /\ COL_ATTR_STR \in header
    /\ \E j \in DOMAIN ReturnedColumn(COL_ATTR_STR) :
          /\ PrologueAt(ReferenceRows, j).ok
          /\ \E k \in DOMAIN ReferenceRows[j][COL_ATTR_NAME] :
                /\ ReferenceRows[j][COL_ATTR_NAME][k] = DW_AT_decl_file
                /\ ReferenceRows[j][COL_ATTR_INT][k] = 9
                /\ ReturnedColumn(COL_ATTR_STR)[j][k] = <<>>

\* ------------------------------------------- the bound of the delivery buffer

\* Thread w leaves the step with a unit it has just popped (lines 250-252).
Pops(w) == wpc'[w] = "parse" /\ wunit'[w] # wunit[w]

\* C27: in every reachable state delivery_queue.size() + units_in_progress
\* is at most 2 * N, hence the delivery queue never holds more than 2 * N
\* chunks, because a worker pops a unit only while the delivery queue holds
\* at most N chunks and at most N units are decoded at once.
C27_BufferBound ==
    /\ [](/\ Len(delivery_queue) + units_in_progress =< 2 * num_threads
          /\ units_in_progress =< num_threads
          /\ Cardinality(Decoding) =< num_threads)
    /\ [][\A w \in Threads :
             Pops(w) => Len(delivery_queue') =< num_threads]_vars

\* The bound is met with units still being decoded: two threads, two
\* chunks queued and two units in progress.
C27_Witness ==
    /\ num_threads = 2
    /\ Len(delivery_queue) = 2
    /\ units_in_progress = 2
    /\ Cardinality(Decoding) = 2

\* ------------------------------------------- after the end of the stream

\* The consumer's last call was a generate that returned end-of-stream or
\* rethrew a worker's exception, and no resetParser has run since.
StreamEnded == last_ret.kind \in {"eos", "error"}

\* C28: once generate has returned end-of-stream or raised a worker error,
\* is_stopped is set, and every later generate call before a reset returns
\* end-of-stream, never a chunk and never the error a second time, even if
\* chunks are still in the delivery queue.
C28_EndIsSticky ==
    /\ [](StreamEnded => is_stopped /\ cpc # "gen_wait")
    /\ [][(StreamEnded /\ ReturnsFromLoop)
             => last_ret' = [kind |-> "eos", line |-> 699]]_vars
    /\ [][(StreamEnded /\ cpc = "idle" /\ cpc' # "idle")
             => cpc' \in {"gen", "reset_notify"}]_vars

\* A generate call after the end returned end-of-stream from line 699 while
\* a chunk is in the delivery queue and a worker's exception is stored.
C28_Witness ==
    /\ last_ret = [kind |-> "eos", line |-> 699]
    /\ delivery_queue # <<>>
    /\ background_exception # NoException
    /\ cpc = "idle"

\* ------------------------------------------------ waiting for a producer

\* A thread of the pool is decoding a unit, or is in the loop of line 243
\* (at its top, or waiting on wake_up_threads) with a unit left to pop.
LiveProducer ==
    /\ pool
    /\ \E w \in Workers :
          \/ wpc[w] = "parse"
          \/ wpc[w] \in {"loop", "wait"} /\ units_queue # <<>> /\ ~is_stopped

\* C29 as stated: in every state reachable through generate and resetParser
\* calls, the states after a generate call that failed during initialization
\* included, whenever generate blocks on deliver_chunk there is at least one
\* live worker that is decoding a unit or will pop one.
C29_NeverWaitsWithoutProducer == cpc = "gen_wait" => LiveProducer

\* What the code keeps: the same once the pool has been started.
C29_ProducerOnceStarted == (cpc = "gen_wait" /\ pool) => LiveProducer

\* generate blocks on deliver_chunk on an object whose initialization threw
\* after a unit was enqueued: the unit is in units_queue and there is no
\* pool.
C29_Reached ==
    /\ cpc = "gen_wait"
    /\ ~pool
    /\ units_queue # <<>>
    /\ last_ret = [kind |-> "init_error"]

====
